---- MODULE Spec2Model ----
(***************************************************************************)
(* State-machine model of the data-wrangling helpers of the TERN drone     *)
(* Metashape workflow: the band reindex of the multispectral sensors, the  *)
(* two timestamp filters, the flight-pattern filter, marker loading, GPU   *)
(* setup, the merge of the two chunks, the resumed calibration and the     *)
(* main sequence of metashape_load_multispec.py.                           *)
(*                                                                         *)
(* A chunk is a sequence of sensors and a sequence of cameras.  Labels are *)
(* sequences of tokens: "Panchro" in label and label.startswith("DJI_")    *)
(* are tests on the tokens.  Times are whole seconds, positions integers;  *)
(* fractions (percentiles, thresholds, ratios, means) are compared by      *)
(* cross-multiplication, so the arithmetic is exact.  dt.timestamp() is    *)
(* taken without daylight-saving shifts, and chunk.cameras as a list that  *)
(* a chunk.remove() during the iteration does not change.                  *)
(***************************************************************************)
EXTENDS Integers, Sequences, FiniteSets, TLC

VARIABLES
    op,                 \* the operation under way
    pc,                 \* its position
    sensors,            \* chunk.sensors
    sensors0,           \* chunk.sensors when the operation was called
    multispec_sensors,  \* positions in sensors of the sensors with a layer index
    panchro_sensor,     \* position in sensors of the Panchro sensor, 0 for None
    index_mapping,      \* dict: current layer index -> new layer index
    i,                  \* loop counter of the two assignment passes
    master_sensor,      \* position of the sensor made master, 0 when none was
    cameras,            \* chunk.cameras
    cameras0,           \* chunk.cameras when the operation was called
    args,               \* the operation's other arguments
    rgb_list,           \* the RGB cameras (or their timestamps) collected
    ms_list,            \* the multispectral cameras (or timestamps) collected
    time_offset,        \* remove_images_outside_rgb_times: detected offset, seconds
    del_camera_names,   \* remove_images_outside_rgb_times: labels marked
    ms_outside_area,    \* the cameras to remove
    ret,                \* the value returned
    markers,            \* chunk.markers of the chunk given to load_markers
    markers0,           \* chunk.markers when load_markers was called
    markers_loaded,     \* markers.load_markers: its counter
    raised,             \* the exception that left the operation, "None" if none
    app,                \* Metashape.app: gpu_mask and cpu_enable
    doc,                \* the document: its chunks, in order
    doc0,               \* the document when the operation was called
    trace               \* the calls made on the chunk and the document, in order

sensorVars == <<sensors, sensors0, multispec_sensors, panchro_sensor,
                index_mapping, i, master_sensor>>

cameraVars == <<cameras, cameras0, args, rgb_list, ms_list, time_offset,
                del_camera_names, ms_outside_area, ret>>

docVars == <<markers, markers0, markers_loaded, raised, app, doc, doc0, trace>>

vars == <<op, pc, sensorVars, cameraVars, docVars>>

(***************************************************************************)
(* Bounds of the model.                                                    *)
(***************************************************************************)
MaxSensors == 3         \* sensors of an arbitrary chunk
MaxBands == 12          \* bands of a chunk whose sensors are indexed 0..n-1
MaxCameras == 3         \* cameras of a chunk given to a timestamp filter
MaxFlightCameras == 4   \* cameras of a chunk given to the flight-pattern filter

(***************************************************************************)
(* Program constants.                                                      *)
(***************************************************************************)
PanchroTarget == 10
temp_offset == 100

RangeOf(s) == {s[k] : k \in DOMAIN s}

SeqsUpTo(S, n) == UNION {[1..k -> S] : k \in 0..n}

(***************************************************************************)
(* configure_multispectral_camera                                          *)
(***************************************************************************)

\* "Panchro" in sensor.label
IsPanchro(label) == \E k \in DOMAIN label : label[k] = "Panchro"

NoSensor == 0

\* multispec_sensors = [s for s in chunk.sensors if hasattr(s, 'layer_index')]
RECURSIVE LayerSensors(_, _)
LayerSensors(ss, k) ==
    IF k > Len(ss) THEN <<>>
    ELSE (IF ss[k].has_layer THEN <<k>> ELSE <<>>) \o LayerSensors(ss, k + 1)

\* the first sensor of multispec_sensors whose label contains "Panchro"
RECURSIVE FindPanchro(_, _, _)
FindPanchro(ss, ms, k) ==
    IF k > Len(ms) THEN NoSensor
    ELSE IF IsPanchro(ss[ms[k]].label) THEN ms[k]
    ELSE FindPanchro(ss, ms, k + 1)

NewIndexNoShift(label, current_index, original_panchro_index) ==
    IF IsPanchro(label) THEN PanchroTarget ELSE current_index

NewIndexPanchroStays(label, current_index, original_panchro_index) ==
    IF current_index > original_panchro_index THEN current_index - 1
    ELSE current_index

\* lines 50-58: the new index of one sensor
NewIndex(label, current_index, original_panchro_index) ==
    IF IsPanchro(label) THEN PanchroTarget
    ELSE IF current_index > original_panchro_index THEN current_index - 1
    ELSE current_index

\* index_mapping[current_index] = ...: a later sensor overwrites an equal key
DictPut(m, key, val) ==
    [x \in DOMAIN m \cup {key} |-> IF x = key THEN val ELSE m[x]]

RECURSIVE BuildMapping(_, _, _, _, _)
BuildMapping(ss, ms, k, p, m) ==
    IF k > Len(ms) THEN m
    ELSE BuildMapping(ss, ms, k + 1, p,
             DictPut(m, ss[ms[k]].layer_index,
                     NewIndex(ss[ms[k]].label, ss[ms[k]].layer_index, p)))

EmptyDict == [x \in {} |-> 0]

\* the operations on one chunk leave the document and the application alone
NoDocument ==
    /\ markers = <<>> /\ markers0 = <<>> /\ markers_loaded = 0
    /\ raised = "None"
    /\ app = [gpu_mask |-> {}, cpu_enable |-> TRUE]
    /\ doc = <<>> /\ doc0 = <<>> /\ trace = <<>>

\* a specification of the sensors alone leaves the cameras empty
NoCameras ==
    /\ cameras = <<>> /\ cameras0 = <<>> /\ args = <<>>
    /\ rgb_list = <<>> /\ ms_list = <<>> /\ time_offset = 0
    /\ del_camera_names = <<>> /\ ms_outside_area = <<>> /\ ret = "None"

\* the sensors a chunk may hold
SensorLabels == {<<"Blue">>, <<"MS", "Panchro">>}
LayerValues == {0, 4, 10, 11}

Sensor(label, idx, has) == [label |-> label, layer_index |-> idx, has_layer |-> has]

AnySensors ==
    SeqsUpTo({Sensor(l, x, h) : l \in SensorLabels, x \in LayerValues,
                                h \in BOOLEAN}, MaxSensors)

\* the n-band camera: indices 0..n-1 in order, Panchro at index p
BandCamera(n, p) ==
    [k \in 1..n |-> Sensor(IF k - 1 = p THEN <<"Panchro">>
                           ELSE <<"Band", ToString(k - 1)>>, k - 1, TRUE)]

BandCameras == {BandCamera(n, p) : n \in 1..MaxBands, p \in 0..(MaxBands - 1)}

InitConfigure ==
    /\ op = "configure"
    /\ pc = "start"
    /\ sensors \in AnySensors \cup BandCameras
    /\ sensors0 = sensors
    /\ multispec_sensors = <<>>
    /\ panchro_sensor = NoSensor
    /\ index_mapping = EmptyDict
    /\ i = 0
    /\ master_sensor = NoSensor
    /\ NoCameras
    /\ NoDocument

\* lines 21-27: no multispectral sensor, return
ConfigureNoSensors ==
    /\ op = "configure" /\ pc = "start"
    /\ LayerSensors(sensors, 1) = <<>>
    /\ pc' = "done"
    /\ UNCHANGED <<op, docVars, sensors, sensors0, multispec_sensors, panchro_sensor,
                   index_mapping, i, master_sensor, cameraVars>>

\* lines 29-38: no Panchro sensor, return
ConfigureNoPanchro ==
    /\ op = "configure" /\ pc = "start"
    /\ LayerSensors(sensors, 1) # <<>>
    /\ FindPanchro(sensors, LayerSensors(sensors, 1), 1) = NoSensor
    /\ multispec_sensors' = LayerSensors(sensors, 1)
    /\ pc' = "done"
    /\ UNCHANGED <<op, docVars, sensors, sensors0, panchro_sensor, index_mapping, i,
                   master_sensor, cameraVars>>

\* lines 40-58: find the Panchro sensor and build index_mapping
ConfigureMapping ==
    /\ op = "configure" /\ pc = "start"
    /\ LET ms == LayerSensors(sensors, 1)
           p == FindPanchro(sensors, ms, 1)
       IN /\ ms # <<>>
          /\ p # NoSensor
          /\ multispec_sensors' = ms
          /\ panchro_sensor' = p
          /\ index_mapping' =
                 BuildMapping(sensors, ms, 1, sensors[p].layer_index, EmptyDict)
    /\ i' = 1
    /\ pc' = "pass1"
    /\ UNCHANGED <<op, docVars, sensors, sensors0, master_sensor, cameraVars>>

AssignTempNoOffset(current_index) == index_mapping[current_index]

\* lines 64-66: sensor.layer_index = index_mapping[current_index] + temp_offset
AssignTemp(current_index) == index_mapping[current_index] + temp_offset

ConfigurePass1 ==
    /\ op = "configure" /\ pc = "pass1"
    /\ IF i <= Len(multispec_sensors)
       THEN /\ sensors' = [sensors EXCEPT ![multispec_sensors[i]].layer_index =
                               AssignTemp(@)]
            /\ i' = i + 1
            /\ pc' = pc
       ELSE /\ i' = 1
            /\ pc' = "pass2"
            /\ UNCHANGED sensors
    /\ UNCHANGED <<op, docVars, sensors0, multispec_sensors, panchro_sensor,
                   index_mapping, master_sensor, cameraVars>>

\* lines 69-71: sensor.layer_index = temp_index - temp_offset
AssignFinal(temp_index) == temp_index - temp_offset

ConfigurePass2 ==
    /\ op = "configure" /\ pc = "pass2"
    /\ i <= Len(multispec_sensors)
    /\ sensors' = [sensors EXCEPT ![multispec_sensors[i]].layer_index =
                       AssignFinal(@)]
    /\ i' = i + 1
    /\ UNCHANGED <<op, docVars, pc, sensors0, multispec_sensors, panchro_sensor,
                   index_mapping, master_sensor, cameraVars>>

\* lines 81-83: panchro_sensor.makeMaster()
ConfigureMaster ==
    /\ op = "configure" /\ pc = "pass2"
    /\ i > Len(multispec_sensors)
    /\ master_sensor' = panchro_sensor
    /\ pc' = "done"
    /\ UNCHANGED <<op, docVars, sensors, sensors0, multispec_sensors, panchro_sensor,
                   index_mapping, i, cameraVars>>

NextConfigure ==
    \/ ConfigureNoSensors
    \/ ConfigureNoPanchro
    \/ ConfigureMapping
    \/ ConfigurePass1
    \/ ConfigurePass2
    \/ ConfigureMaster

SpecConfigure == InitConfigure /\ [][NextConfigure]_vars

\* the sensors with a layer index, at the call
Layered0 == {k \in DOMAIN sensors0 : sensors0[k].has_layer}

DistinctAtCall ==
    \A a, b \in Layered0 :
        a # b => sensors0[a].layer_index # sensors0[b].layer_index

PanchroAtCall == {k \in Layered0 : IsPanchro(sensors0[k].label)}

ConfigureReturned == op = "configure" /\ pc = "done"

LayerAtCall(k) == sensors0[k].layer_index

DistinctNow ==
    \A a, b \in Layered0 :
        a # b => sensors[a].layer_index # sensors[b].layer_index

\* C1: called on a chunk whose layer-indexed sensors have pairwise distinct
\* indices and exactly one of which is a Panchro sensor (at index p),
\* configure_multispectral_camera returns with the Panchro sensor at index 10,
\* every other sensor that was above p one lower, and every sensor that was
\* below p where it was.
C1_Reindex ==
    (ConfigureReturned /\ DistinctAtCall /\ Cardinality(PanchroAtCall) = 1) =>
        \A k \in Layered0 :
            LET p == LayerAtCall(CHOOSE q \in PanchroAtCall : TRUE)
            IN sensors[k].layer_index =
                   IF k \in PanchroAtCall THEN 10
                   ELSE IF LayerAtCall(k) > p THEN LayerAtCall(k) - 1
                   ELSE LayerAtCall(k)

\* the 11-band camera with Panchro at 4 has been reindexed
C1_Witness ==
    /\ ConfigureReturned
    /\ sensors0 = BandCamera(11, 4)
    /\ [k \in 1..11 |-> sensors[k].layer_index] = <<0, 1, 2, 3, 10, 4, 5, 6, 7, 8, 9>>

\* C2 as stated: whenever the layer-indexed sensors start with pairwise
\* distinct indices, no two of them share an index after the call.
C2_AsStated == (ConfigureReturned /\ DistinctAtCall) => DistinctNow

\* C2, amended: whenever the layer-indexed sensors start with pairwise
\* distinct indices that all lie in 0..10 and at most one of them is a Panchro
\* sensor, no two of them share an index after the call.
C2_CollisionFree ==
    (/\ ConfigureReturned
     /\ DistinctAtCall
     /\ \A k \in Layered0 : LayerAtCall(k) \in 0..10
     /\ Cardinality(PanchroAtCall) <= 1) => DistinctNow

\* a chunk with a band on each side of the Panchro sensor has been reindexed
C2_Witness ==
    /\ ConfigureReturned
    /\ DistinctAtCall
    /\ \A k \in Layered0 : LayerAtCall(k) \in 0..10
    /\ Cardinality(PanchroAtCall) = 1
    /\ \E a, b \in Layered0, q \in PanchroAtCall :
           /\ LayerAtCall(a) < LayerAtCall(q) /\ LayerAtCall(q) < LayerAtCall(b)
           /\ sensors[q].layer_index = 10
           /\ sensors[b].layer_index = LayerAtCall(b) - 1

\* C20: on a chunk whose layer-indexed sensors start at pairwise distinct
\* indices within 0..10, exactly one of them a Panchro sensor, no two of
\* them hold the same layer index in any state of the call: before the
\* passes, after each assignment of either pass, and at the return.
C20_NoIntermediateCollision ==
    (/\ op = "configure"
     /\ DistinctAtCall
     /\ \A k \in Layered0 : LayerAtCall(k) \in 0..10
     /\ Cardinality(PanchroAtCall) = 1) => DistinctNow

\* the 11-band camera half way through the first pass, and through the second
C20_Witness ==
    /\ op = "configure"
    /\ pc \in {"pass1", "pass2"}
    /\ Len(sensors0) = 11
    /\ \A k \in DOMAIN sensors0 : sensors0[k].has_layer /\ LayerAtCall(k) = k - 1
    /\ Cardinality(PanchroAtCall) = 1
    /\ \E a, b \in DOMAIN sensors :
           /\ sensors[a].layer_index >= temp_offset
           /\ sensors[b].layer_index < temp_offset

(***************************************************************************)
(* Cameras.  A camera carries its label, its enabled flag, the two         *)
(* metadata entries the filters read, its reference location (<<>> for     *)
(* None, else <<x, y, z>>), its group (<<>> for None, else <<label>>) and  *)
(* the label of its master camera.  id tells the cameras of a chunk apart. *)
(* A metadata string is the text of a date in one of two layouts, an empty *)
(* string, or text that is no date; fmt "absent" is a missing key.         *)
(***************************************************************************)
Stamp(fmt, d, h, m, s) == [fmt |-> fmt, d |-> d, h |-> h, m |-> m, s |-> s]

Absent == Stamp("absent", 0, 0, 0, 0)
Garbled == Stamp("bad", 0, 0, 0, 0)
EmptyString == Stamp("empty", 0, 0, 0, 0)

Meta(exif, xmp) == [exif |-> exif, xmp |-> xmp]

\* not camera.photo.meta
MetaEmpty(meta) == meta.exif = Absent /\ meta.xmp = Absent

Cam(label, enabled, meta, loc, group, master_label) ==
    [label |-> label, enabled |-> enabled, meta |-> meta, loc |-> loc,
     group |-> group, master_label |-> master_label]

\* chunk.addPhotos: the cameras of a chunk, each with its identity
WithIds(cs) == [k \in DOMAIN cs |-> [id |-> k] @@ cs[k]]

StartsWith(label, prefix) == Len(label) >= 1 /\ label[1] = prefix

\* datetime.datetime.strptime(timestamp, format): ValueError unless the text
\* is a date in that layout
Strptime(str, layout) ==
    IF str.fmt = layout
    THEN [ok |-> TRUE, dt |-> [d |-> str.d, h |-> str.h, m |-> str.m, s |-> str.s]]
    ELSE [ok |-> FALSE, dt |-> [d |-> 0, h |-> 0, m |-> 0, s |-> 0]]

\* dt.timestamp(), in seconds
Timestamp(dt) == ((dt.d * 24 + dt.h) * 60 + dt.m) * 60 + dt.s

Abs(x) == IF x < 0 THEN -x ELSE x

MinOf(S) == CHOOSE x \in S : \A y \in S : x <= y
MaxOf(S) == CHOOSE x \in S : \A y \in S : x >= y

IdsOf(cs) == {cs[k].id : k \in DOMAIN cs}

CamById(cs, id) == cs[CHOOSE k \in DOMAIN cs : cs[k].id = id]

\* chunk.remove(cameras): the chunk without the cameras of these identities
RemoveIds(cs, ids) == SelectSeq(cs, LAMBDA c : c.id \notin ids)

(***************************************************************************)
(* remove_images_outside_rgb_times                                         *)
(***************************************************************************)
MAX_OFFSET_HOURS == 6

\* lines 112-113, 183-184: an hour before 12 is taken as PM
PmAdjust(dt) == IF dt.h < 12 THEN [dt EXCEPT !.h = dt.h + 12] ELSE dt

ConsideredEnabled(c, prefix) ==
    /\ c.enabled
    /\ StartsWith(c.label, prefix)
    /\ c.label = c.master_label
    /\ ~MetaEmpty(c.meta)
    /\ c.meta.exif # Absent

\* lines 100-105, 169-174: the cameras the function looks at
Considered(c, prefix) ==
    /\ StartsWith(c.label, prefix)
    /\ c.label = c.master_label
    /\ ~MetaEmpty(c.meta)
    /\ c.meta.exif # Absent

\* lines 96-117
RECURSIVE get_camera_timestamps(_, _, _)
get_camera_timestamps(cs, k, prefix) ==
    IF k > Len(cs) THEN <<>>
    ELSE (IF Considered(cs[k], prefix) /\ Strptime(cs[k].meta.exif, "colon").ok
          THEN <<Timestamp(PmAdjust(Strptime(cs[k].meta.exif, "colon").dt))>>
          ELSE <<>>) \o get_camera_timestamps(cs, k + 1, prefix)

\* round(num / den) of Python 3: to the nearest integer, a tie to the even one
RoundHalfEven(num, den) ==
    LET q == num \div den
        r == num % den
    IN IF 2 * r < den THEN q
       ELSE IF 2 * r > den THEN q + 1
       ELSE IF q % 2 = 0 THEN q ELSE q + 1

\* lines 146-153: the first offset of the range with the least distance;
\* centers are kept doubled, so an hour is 7200; min_diff -1 is infinity
RECURSIVE SearchOffset(_, _, _, _)
SearchOffset(center_diff2, offset, best_offset, min_diff) ==
    IF offset > MAX_OFFSET_HOURS THEN best_offset
    ELSE LET diff == Abs(center_diff2 - offset * 7200)
         IN IF min_diff = -1 \/ diff < min_diff
            THEN SearchOffset(center_diff2, offset + 1, offset, diff)
            ELSE SearchOffset(center_diff2, offset + 1, best_offset, min_diff)

DetectOffsetNoClamp(rgb_timestamps, multispec_timestamps) ==
    LET rgb_center2 == MinOf(RangeOf(rgb_timestamps)) + MaxOf(RangeOf(rgb_timestamps))
        multispec_center2 == MinOf(RangeOf(multispec_timestamps))
                                + MaxOf(RangeOf(multispec_timestamps))
    IN RoundHalfEven(multispec_center2 - rgb_center2, 7200) * 3600

\* lines 135-157: the detected offset, in seconds
DetectOffset(rgb_timestamps, multispec_timestamps) ==
    LET rgb_center2 == MinOf(RangeOf(rgb_timestamps)) + MaxOf(RangeOf(rgb_timestamps))
        multispec_center2 == MinOf(RangeOf(multispec_timestamps))
                                + MaxOf(RangeOf(multispec_timestamps))
        center_diff2 == multispec_center2 - rgb_center2
    IN IF Abs(center_diff2) > MAX_OFFSET_HOURS * 7200
       THEN SearchOffset(center_diff2, -MAX_OFFSET_HOURS, 0, -1) * 3600
       ELSE RoundHalfEven(center_diff2, 7200) * 3600

OutsideWindowLate(cam_time, first_rgb_time, last_rgb_time) ==
    cam_time > last_rgb_time

\* line 189
OutsideWindow(cam_time, first_rgb_time, last_rgb_time) ==
    cam_time < first_rgb_time \/ cam_time > last_rgb_time

\* lines 176-195: whether the loop marks this camera
Marks(c, offset, first_rgb_time, last_rgb_time) ==
    /\ Considered(c, "IMG_")
    /\ Strptime(c.meta.exif, "colon").ok
    /\ OutsideWindow(Timestamp(PmAdjust(Strptime(c.meta.exif, "colon").dt)) - offset,
                     first_rgb_time, last_rgb_time)
    /\ c.loc # <<>>

\* lines 168-198: altitude 0 and the label noted, for each camera marked
RECURSIVE MarkLoop(_, _, _, _, _, _)
MarkLoop(cs, k, names, offset, first_rgb_time, last_rgb_time) ==
    IF k > Len(cs) THEN [cameras |-> cs, names |-> names]
    ELSE IF Marks(cs[k], offset, first_rgb_time, last_rgb_time)
    THEN MarkLoop([cs EXCEPT ![k].loc = <<cs[k].loc[1], cs[k].loc[2], 0>>], k + 1,
                  Append(names, cs[k].label), offset, first_rgb_time, last_rgb_time)
    ELSE MarkLoop(cs, k + 1, names, offset, first_rgb_time, last_rgb_time)

\* lines 201-207: whether the deletion loop removes this camera
Deletes(c, names) ==
    /\ ~(c.group # <<>> /\ c.group[1] = "Calibration images")
    /\ c.label \in RangeOf(names)

\* the chunks the timestamp-offset filter is given
T0100 == Stamp("colon", 0, 1, 0, 0)
T1330 == Stamp("colon", 0, 13, 30, 0)
T1600 == Stamp("colon", 0, 16, 0, 0)
T2200 == Stamp("colon", 0, 22, 0, 0)
Iso2200 == Stamp("iso", 0, 22, 0, 0)

Dji == <<"DJI_", "0001">>
Img1 == <<"IMG_", "0001", "1">>
Img2 == <<"IMG_", "0002", "1">>
Here == <<5, 5, 50>>

RemoveCams ==
    {Cam(Dji, TRUE, Meta(t, Absent), Here, <<>>, Dji) :
        t \in {T0100, T1330, T1600, T2200, Garbled}}
    \cup {Cam(Img1, TRUE, Meta(t, Absent), Here, <<>>, Img1) :
        t \in {T0100, T1330, T1600, T2200, Garbled, Iso2200}}
    \cup {Cam(Img2, TRUE, Meta(t, Absent), Here, <<>>, Img2) : t \in {T1600, T2200}}
    \cup {Cam(Img1, TRUE, Meta(T2200, Absent), <<>>, <<>>, Img1),
          Cam(Img1, TRUE, Meta(T2200, Absent), Here, <<"Calibration images">>, Img1),
          Cam(Img2, TRUE, Meta(T2200, Absent), Here, <<>>, Img1),
          Cam(Img2, TRUE, Meta(Absent, T2200), Here, <<>>, Img2),
          Cam(Img2, TRUE, Meta(Absent, Absent), Here, <<>>, Img2)}

NoSensors ==
    /\ sensors = <<>> /\ sensors0 = <<>> /\ multispec_sensors = <<>>
    /\ panchro_sensor = NoSensor /\ index_mapping = EmptyDict /\ i = 0
    /\ master_sensor = NoSensor

InitRemove ==
    /\ op = "remove"
    /\ pc = "start"
    /\ NoSensors
    /\ cameras \in {WithIds(cs) : cs \in SeqsUpTo(RemoveCams, MaxCameras)}
    /\ cameras0 = cameras
    /\ args = <<>>
    /\ rgb_list = <<>> /\ ms_list = <<>> /\ time_offset = 0
    /\ del_camera_names = <<>> /\ ms_outside_area = <<>> /\ ret = "None"
    /\ NoDocument

\* lines 119-123: no RGB timestamp, return
RemoveNoRgb ==
    /\ op = "remove" /\ pc = "start"
    /\ get_camera_timestamps(cameras, 1, "DJI_") = <<>>
    /\ pc' = "done"
    /\ UNCHANGED <<op, docVars, sensorVars, cameraVars>>

\* lines 119-133: no multispectral timestamp, return
RemoveNoMultispec ==
    /\ op = "remove" /\ pc = "start"
    /\ get_camera_timestamps(cameras, 1, "DJI_") # <<>>
    /\ get_camera_timestamps(cameras, 1, "IMG_") = <<>>
    /\ rgb_list' = get_camera_timestamps(cameras, 1, "DJI_")
    /\ pc' = "done"
    /\ UNCHANGED <<op, docVars, sensorVars, cameras, cameras0, args, ms_list, time_offset,
                   del_camera_names, ms_outside_area, ret>>

\* lines 119-162: both windows and the offset between them
RemoveDetect ==
    /\ op = "remove" /\ pc = "start"
    /\ LET rgb_timestamps == get_camera_timestamps(cameras, 1, "DJI_")
           multispec_timestamps == get_camera_timestamps(cameras, 1, "IMG_")
       IN /\ rgb_timestamps # <<>>
          /\ multispec_timestamps # <<>>
          /\ rgb_list' = rgb_timestamps
          /\ ms_list' = multispec_timestamps
          /\ time_offset' = DetectOffset(rgb_timestamps, multispec_timestamps)
    /\ pc' = "mark"
    /\ UNCHANGED <<op, docVars, sensorVars, cameras, cameras0, args, del_camera_names,
                   ms_outside_area, ret>>

\* lines 164-198: mark the cameras outside the RGB window
RemoveMark ==
    /\ op = "remove" /\ pc = "mark"
    /\ LET marked == MarkLoop(cameras, 1, <<>>, time_offset,
                              MinOf(RangeOf(rgb_list)), MaxOf(RangeOf(rgb_list)))
       IN /\ cameras' = marked.cameras
          /\ del_camera_names' = marked.names
    /\ pc' = "delete"
    /\ UNCHANGED <<op, docVars, sensorVars, cameras0, args, rgb_list, ms_list, time_offset,
                   ms_outside_area, ret>>

\* lines 200-207: delete the cameras whose label was noted
RemoveDelete ==
    /\ op = "remove" /\ pc = "delete"
    /\ cameras' = SelectSeq(cameras, LAMBDA c : ~Deletes(c, del_camera_names))
    /\ pc' = "done"
    /\ UNCHANGED <<op, docVars, sensorVars, cameras0, args, rgb_list, ms_list, time_offset,
                   del_camera_names, ms_outside_area, ret>>

NextRemove ==
    \/ RemoveNoRgb
    \/ RemoveNoMultispec
    \/ RemoveDetect
    \/ RemoveMark
    \/ RemoveDelete

SpecRemove == InitRemove /\ [][NextRemove]_vars

(***************************************************************************)
(* filter_images_by_timestamp                                              *)
(***************************************************************************)

\* lines 67-71: the Exif entry when the key is there, else the Xmp entry
TimestampStr(meta) == IF meta.exif # Absent THEN meta.exif ELSE meta.xmp

\* lines 76-82: the first layout, and on ValueError the second
ParseEither(str) ==
    IF Strptime(str, "colon").ok THEN Strptime(str, "colon")
    ELSE Strptime(str, "iso")

\* lines 59-74: the cameras whose timestamp the loop goes on to parse
HasTimestampStr(c) ==
    /\ c.enabled
    /\ ~MetaEmpty(c.meta)
    /\ TimestampStr(c.meta) # Absent
    /\ TimestampStr(c.meta) # EmptyString

\* lines 58-92: the (timestamp, camera) pairs of the cameras of one prefix
RECURSIVE CollectTimestamps(_, _, _)
CollectTimestamps(cs, k, prefix) ==
    IF k > Len(cs) THEN <<>>
    ELSE (IF /\ HasTimestampStr(cs[k])
             /\ ParseEither(TimestampStr(cs[k].meta)).ok
             /\ StartsWith(cs[k].label, prefix)
          THEN <<[t |-> Timestamp(ParseEither(TimestampStr(cs[k].meta)).dt),
                  id |-> cs[k].id]>>
          ELSE <<>>) \o CollectTimestamps(cs, k + 1, prefix)

BeyondWindowInclusive(timestamp, min_rgb_time, max_rgb_time) ==
    timestamp <= min_rgb_time \/ timestamp >= max_rgb_time

\* line 122
BeyondWindow(timestamp, min_rgb_time, max_rgb_time) ==
    timestamp < min_rgb_time \/ timestamp > max_rgb_time

\* lines 102-123: cameras_to_remove
RECURSIVE CamerasToRemove(_, _, _, _)
CamerasToRemove(ms, k, min_rgb_time, max_rgb_time) ==
    IF k > Len(ms) THEN <<>>
    ELSE (IF BeyondWindow(ms[k].t, min_rgb_time, max_rgb_time)
          THEN <<ms[k].id>> ELSE <<>>)
         \o CamerasToRemove(ms, k + 1, min_rgb_time, max_rgb_time)

\* the chunks the buffered timestamp filter is given
F0001 == Stamp("colon", 0, 0, 1, 0)
F1200 == Stamp("colon", 0, 12, 0, 0)
F120030 == Stamp("colon", 0, 12, 0, 30)
F1201 == Stamp("colon", 0, 12, 1, 0)
F1202 == Stamp("colon", 0, 12, 2, 0)
Iso1202 == Stamp("iso", 0, 12, 2, 0)
Panel == <<"PANEL", "0001">>

FilterCams ==
    {Cam(Dji, TRUE, Meta(t, Absent), Here, <<>>, Dji) : t \in {F120030, F1201, Garbled}}
    \cup {Cam(Dji, FALSE, Meta(F1202, Absent), Here, <<>>, Dji)}
    \cup {Cam(Img1, TRUE, Meta(t, Absent), Here, <<>>, Img1) :
            t \in {F0001, F1200, F120030, F1201, F1202, Garbled}}
    \cup {Cam(Img1, FALSE, Meta(F1202, Absent), Here, <<>>, Img1),
          Cam(Img1, TRUE, Meta(Absent, Iso1202), Here, <<>>, Img1),
          Cam(Img1, TRUE, Meta(EmptyString, F1202), Here, <<>>, Img1),
          Cam(Img1, TRUE, Meta(Absent, Absent), Here, <<>>, Img1),
          Cam(Panel, TRUE, Meta(F1202, Absent), Here, <<>>, Panel)}

Buffers == {0, 30}

InitFilter ==
    /\ op = "filter"
    /\ pc = "start"
    /\ NoSensors
    /\ cameras \in {WithIds(cs) : cs \in SeqsUpTo(FilterCams, MaxCameras)}
    /\ cameras0 = cameras
    /\ args \in {[time_buffer_seconds |-> b] : b \in Buffers}
    /\ rgb_list = <<>> /\ ms_list = <<>> /\ time_offset = 0
    /\ del_camera_names = <<>> /\ ms_outside_area = <<>> /\ ret = "None"
    /\ NoDocument

\* lines 58-96: no RGB timestamp, return
FilterNoRgb ==
    /\ op = "filter" /\ pc = "start"
    /\ CollectTimestamps(cameras, 1, "DJI_") = <<>>
    /\ ms_list' = CollectTimestamps(cameras, 1, "IMG_")
    /\ pc' = "done"
    /\ UNCHANGED <<op, docVars, sensorVars, cameras, cameras0, args, rgb_list, time_offset,
                   del_camera_names, ms_outside_area, ret>>

\* lines 58-100: no multispectral timestamp, return
FilterNoMultispec ==
    /\ op = "filter" /\ pc = "start"
    /\ CollectTimestamps(cameras, 1, "DJI_") # <<>>
    /\ CollectTimestamps(cameras, 1, "IMG_") = <<>>
    /\ rgb_list' = CollectTimestamps(cameras, 1, "DJI_")
    /\ pc' = "done"
    /\ UNCHANGED <<op, docVars, sensorVars, cameras, cameras0, args, ms_list, time_offset,
                   del_camera_names, ms_outside_area, ret>>

\* lines 58-100: both lists collected
FilterCollect ==
    /\ op = "filter" /\ pc = "start"
    /\ CollectTimestamps(cameras, 1, "DJI_") # <<>>
    /\ CollectTimestamps(cameras, 1, "IMG_") # <<>>
    /\ rgb_list' = CollectTimestamps(cameras, 1, "DJI_")
    /\ ms_list' = CollectTimestamps(cameras, 1, "IMG_")
    /\ pc' = "window"
    /\ UNCHANGED <<op, docVars, sensorVars, cameras, cameras0, args, time_offset,
                   del_camera_names, ms_outside_area, ret>>

\* lines 102-130: the buffered window, and the cameras outside it removed
FilterRemove ==
    /\ op = "filter" /\ pc = "window"
    /\ LET rgb_timestamps == {rgb_list[k].t : k \in DOMAIN rgb_list}
           min_rgb_time == MinOf(rgb_timestamps) - args.time_buffer_seconds
           max_rgb_time == MaxOf(rgb_timestamps) + args.time_buffer_seconds
           cameras_to_remove == CamerasToRemove(ms_list, 1, min_rgb_time, max_rgb_time)
       IN /\ ms_outside_area' = cameras_to_remove
          /\ cameras' = IF cameras_to_remove # <<>>
                        THEN RemoveIds(cameras, RangeOf(cameras_to_remove))
                        ELSE cameras
    /\ pc' = "done"
    /\ UNCHANGED <<op, docVars, sensorVars, cameras0, args, rgb_list, ms_list, time_offset,
                   del_camera_names, ret>>

NextFilter ==
    \/ FilterNoRgb
    \/ FilterNoMultispec
    \/ FilterCollect
    \/ FilterRemove

SpecFilter == InitFilter /\ [][NextFilter]_vars

\* both timestamp filters
InitTimestampFilters == InitRemove \/ InitFilter

NextTimestampFilters == NextRemove \/ NextFilter

SpecTimestampFilters == InitTimestampFilters /\ [][NextTimestampFilters]_vars

(***************************************************************************)
(* Properties of remove_images_outside_rgb_times                           *)
(***************************************************************************)
Cams0 == RangeOf(cameras0)
CamsNow == RangeOf(cameras)
RemovedIds == IdsOf(cameras0) \ IdsOf(cameras)

ExifParses(c) == c.meta.exif # Absent /\ Strptime(c.meta.exif, "colon").ok

\* the PM-adjusted time of a camera whose Exif timestamp parses
ExifTime(c) == Timestamp(PmAdjust(Strptime(c.meta.exif, "colon").dt))

\* the timestamps a source yielded at the call
Yielded(prefix) ==
    {ExifTime(c) : c \in {x \in Cams0 : Considered(x, prefix) /\ ExifParses(x)}}

BothYielded == Yielded("DJI_") # {} /\ Yielded("IMG_") # {}

\* twice the distance of the window centers, multispectral minus RGB
CenterDiff2 ==
    (MinOf(Yielded("IMG_")) + MaxOf(Yielded("IMG_")))
        - (MinOf(Yielded("DJI_")) + MaxOf(Yielded("DJI_")))

OffsetDetected == op = "remove" /\ pc \in {"mark", "delete"}

RemoveReturned == op = "remove" /\ pc = "done"

InRgbWindow(t) == MinOf(Yielded("DJI_")) <= t /\ t <= MaxOf(Yielded("DJI_"))

\* C3: the offset remove_images_outside_rgb_times detects is a whole number
\* of hours k in -6..6, and no integer of -6..6 brings the multispectral window
\* center closer to the RGB window center than k does.
C3_OffsetMinimizes ==
    (OffsetDetected \/ (RemoveReturned /\ BothYielded)) =>
        \E k \in -6..6 :
            /\ time_offset = k * 3600
            /\ \A j \in -6..6 :
                   Abs(CenterDiff2 - k * 7200) <= Abs(CenterDiff2 - j * 7200)

\* the centers were more than six hours apart, RGB later, and -6 was chosen
C3_Witness ==
    /\ RemoveReturned /\ BothYielded
    /\ CenterDiff2 < -(6 * 7200)
    /\ time_offset = -6 * 3600

\* C4 as stated: after the call, when both sources yielded a timestamp, no
\* IMG_ camera whose offset-corrected timestamp is outside the RGB window is
\* left in the chunk.
C4_AsStated ==
    (RemoveReturned /\ BothYielded) =>
        \A c \in CamsNow :
            (StartsWith(c.label, "IMG_") /\ ExifParses(c)) =>
                InRgbWindow(ExifTime(c) - time_offset)

\* the IMG_ cameras the function both examines and may delete
Deletable(c) ==
    /\ StartsWith(c.label, "IMG_")
    /\ c.label = c.master_label
    /\ ExifParses(c)
    /\ c.loc # <<>>
    /\ ~(c.group # <<>> /\ c.group[1] = "Calibration images")

\* C4, amended: after the call, when both sources yielded a timestamp, no
\* IMG_ camera that is its own master, has a reference location and is not in
\* the 'Calibration images' group, and whose PM-adjusted Exif timestamp minus
\* the detected offset is outside the RGB window, is left in the chunk.
C4_NoneLeftOutside ==
    (RemoveReturned /\ BothYielded) =>
        \A c \in CamsNow :
            Deletable(c) => InRgbWindow(ExifTime(c) - time_offset)

\* a camera before the window was removed and one inside it was kept
C4_Witness ==
    /\ RemoveReturned /\ BothYielded
    /\ \E c \in Cams0 :
           /\ Deletable(c)
           /\ ExifTime(c) - time_offset < MinOf(Yielded("DJI_"))
           /\ c.id \in RemovedIds
    /\ \E c \in CamsNow : Deletable(c)

(***************************************************************************)
(* Properties of filter_images_by_timestamp                                *)
(***************************************************************************)
FilterReturned == op = "filter" /\ pc = "done"

\* the enabled cameras of a prefix with a timestamp that parses
Timed(prefix) ==
    {c \in Cams0 : /\ c.enabled
                   /\ StartsWith(c.label, prefix)
                   /\ TimestampStr(c.meta) \notin {Absent, EmptyString}
                   /\ ParseEither(TimestampStr(c.meta)).ok}

TimeOf(c) == Timestamp(ParseEither(TimestampStr(c.meta)).dt)

RgbTimes == {TimeOf(c) : c \in Timed("DJI_")}

\* the cameras C5 says are removed
OutsideBuffered ==
    IF Timed("DJI_") = {} \/ Timed("IMG_") = {} THEN {}
    ELSE {c.id : c \in {x \in Timed("IMG_") :
              \/ TimeOf(x) < MinOf(RgbTimes) - args.time_buffer_seconds
              \/ TimeOf(x) > MaxOf(RgbTimes) + args.time_buffer_seconds}}

\* C5: filter_images_by_timestamp removes exactly the enabled IMG_ cameras
\* whose parsed timestamp is strictly before (earliest enabled DJI_ timestamp
\* - buffer) or strictly after (latest + buffer); every other camera stays as
\* it was, and nothing is removed when a source has no parsed timestamp.
C5_RemovesExactly ==
    FilterReturned => cameras = RemoveIds(cameras0, OutsideBuffered)

\* one camera was removed while another, exactly on the window bound, stayed
C5_Witness ==
    /\ FilterReturned
    /\ RemovedIds # {}
    /\ args.time_buffer_seconds > 0
    /\ \E c \in Timed("IMG_") :
           /\ TimeOf(c) = MinOf(RgbTimes) - args.time_buffer_seconds
           /\ c.id \in IdsOf(cameras)

(***************************************************************************)
(* Removal camera by camera                                                *)
(***************************************************************************)

\* C18 (as stated): remove_images_outside_rgb_times removes no multispectral
\* camera whose own timestamp, corrected by the detected offset, lies between
\* the first and the last RGB timestamp (bounds included), also when cameras
\* share a label.
C18_AsStated ==
    (RemoveReturned /\ BothYielded) =>
        \A c \in Cams0 :
            (/\ StartsWith(c.label, "IMG_")
             /\ ExifParses(c)
             /\ InRgbWindow(ExifTime(c) - time_offset)) => c.id \notin RemovedIds

\* C19 (as stated): every camera that remove_images_outside_rgb_times leaves
\* in the chunk, those of the 'Calibration images' group among them, has the
\* reference location it had at the call.
C19_AsStated ==
    RemoveReturned =>
        \A c \in CamsNow : c.loc = CamById(cameras0, c.id).loc

(***************************************************************************)
(* Timestamps that do not parse                                            *)
(***************************************************************************)

\* remove_images_outside_rgb_times as one function of the chunk
RemoveRun(cs) ==
    LET rgb == get_camera_timestamps(cs, 1, "DJI_")
        ms == get_camera_timestamps(cs, 1, "IMG_")
    IN IF rgb = <<>> \/ ms = <<>> THEN cs
       ELSE LET marked == MarkLoop(cs, 1, <<>>, DetectOffset(rgb, ms),
                                   MinOf(RangeOf(rgb)), MaxOf(RangeOf(rgb)))
            IN SelectSeq(marked.cameras, LAMBDA c : ~Deletes(c, marked.names))

\* filter_images_by_timestamp as one function of the chunk and the buffer
FilterRun(cs, buffer) ==
    LET rgb == CollectTimestamps(cs, 1, "DJI_")
        ms == CollectTimestamps(cs, 1, "IMG_")
    IN IF rgb = <<>> \/ ms = <<>> THEN cs
       ELSE LET times == {rgb[k].t : k \in DOMAIN rgb}
            IN RemoveIds(cs, RangeOf(CamerasToRemove(ms, 1, MinOf(times) - buffer,
                                                     MaxOf(times) + buffer)))

\* a camera with a timestamp string that the operation cannot parse
Unparseable(c) ==
    IF op = "remove" THEN c.meta.exif # Absent /\ ~Strptime(c.meta.exif, "colon").ok
    ELSE /\ TimestampStr(c.meta) \notin {Absent, EmptyString}
         /\ ~ParseEither(TimestampStr(c.meta)).ok

\* the cameras the operation removes from the chunk without camera b
RemovedWithout(b) ==
    LET cs == RemoveIds(cameras0, {b.id})
    IN IdsOf(cs) \ IdsOf(IF op = "remove" THEN RemoveRun(cs)
                         ELSE FilterRun(cs, args.time_buffer_seconds))

\* C10 as stated: in both timestamp filters a camera whose timestamp string
\* cannot be parsed is never removed, and the cameras removed are those that
\* would be removed were that camera absent from the chunk.
C10_AsStated ==
    (pc = "done" /\ op \in {"remove", "filter"}) =>
        \A b \in Cams0 :
            Unparseable(b) =>
                /\ b.id \in IdsOf(cameras)
                /\ RemovedIds = RemovedWithout(b)

(***************************************************************************)
(* filter_multispec_by_flight_pattern                                      *)
(*                                                                         *)
(* spatial_threshold and keep_ratio are fractions <<numerator,             *)
(* denominator>>.  A percentile is kept multiplied by 20, which makes the  *)
(* linear interpolation of numpy.percentile at 5 and 95 whole.             *)
(***************************************************************************)

\* lines 153-159: enabled, and with a reference location
Positioned(c) == c.enabled /\ c.loc # <<>>

\* lines 152-165: the identities of the positioned cameras of one prefix
RECURSIVE Separate(_, _, _)
Separate(cs, k, prefix) ==
    IF k > Len(cs) THEN <<>>
    ELSE (IF Positioned(cs[k]) /\ StartsWith(cs[k].label, prefix)
          THEN <<cs[k].id>> ELSE <<>>) \o Separate(cs, k + 1, prefix)

\* lines 178-184: one column of rgb_coords
Column(cs, ids, axis) == [k \in DOMAIN ids |-> CamById(cs, ids[k]).loc[axis]]

\* numpy.percentile(column, q), q a multiple of 5, times 20: the value at
\* the virtual index (n - 1) * q / 100 of the sorted column, interpolated
Percentile20(column, q) ==
    LET sorted == SortSeq(column, LAMBDA a, b : a < b)
        pos == (Len(column) - 1) * (q \div 5)
        lo == pos \div 20 + 1
        frac == pos % 20
    IN IF frac = 0 THEN 20 * sorted[lo]
       ELSE 20 * sorted[lo] + frac * (sorted[lo + 1] - sorted[lo])

\* lines 188-202: the expanded box, x_min..z_max, each times 20 * t[2]
ExpandedBox(cs, rgb, t) ==
    [axis \in 1..3 |->
        LET lo20 == Percentile20(Column(cs, rgb, axis), 5)
            hi20 == Percentile20(Column(cs, rgb, axis), 95)
            margin == t[1] * (hi20 - lo20)
        IN [min |-> t[2] * lo20 - margin, max |-> t[2] * hi20 + margin]]

InsideBoxXY(loc, box, t) ==
    \A axis \in 1..2 :
        box[axis].min <= 20 * t[2] * loc[axis] /\ 20 * t[2] * loc[axis] <= box[axis].max

\* lines 212-214
InsideBox(loc, box, t) ==
    \A axis \in 1..3 :
        box[axis].min <= 20 * t[2] * loc[axis] /\ 20 * t[2] * loc[axis] <= box[axis].max

RECURSIVE SumSeq(_, _)
SumSeq(s, k) == IF k > Len(s) THEN 0 ELSE s[k] + SumSeq(s, k + 1)

InsideAltitudeOneStd(z, column) ==
    LET n == Len(column)
        sum == SumSeq(column, 1)
        squares == SumSeq([k \in DOMAIN column |-> column[k] * column[k]], 1)
    IN (n * z - sum) * (n * z - sum) <= n * squares - sum * sum

\* lines 230-236 and 246: alt_min <= z <= alt_max, that is |z - mean| <= 2 * std,
\* squared and multiplied by n * n (numpy.std is the population deviation)
InsideAltitude(z, column) ==
    LET n == Len(column)
        sum == SumSeq(column, 1)
        squares == SumSeq([k \in DOMAIN column |-> column[k] * column[k]], 1)
    IN (n * z - sum) * (n * z - sum) <= 4 * (n * squares - sum * sum)

\* lines 207-217: ms_outside_area of the box
RECURSIVE OutsideBox(_, _, _, _, _)
OutsideBox(cs, ms, k, box, t) ==
    IF k > Len(ms) THEN <<>>
    ELSE (IF InsideBox(CamById(cs, ms[k]).loc, box, t) THEN <<>> ELSE <<ms[k]>>)
         \o OutsideBox(cs, ms, k + 1, box, t)

\* lines 241-249: ms_outside_area of the altitude range
RECURSIVE OutsideAltitude(_, _, _, _)
OutsideAltitude(cs, ms, k, rgb) ==
    IF k > Len(ms) THEN <<>>
    ELSE (IF InsideAltitude(CamById(cs, ms[k]).loc[3], Column(cs, rgb, 3))
          THEN <<>> ELSE <<ms[k]>>)
         \o OutsideAltitude(cs, ms, k + 1, rgb)

\* lines 219-223: in_area_ratio < keep_ratio
TooFewInside(n_inside, n_all, keep) == n_inside * keep[2] < keep[1] * n_all

ReturnConsidered(outside, ms) == Len(ms)

\* line 261
ReturnValue(outside, ms) == Len(outside)

\* the chunks the flight-pattern filter is given
FlightCams ==
    {Cam(Dji, TRUE, Meta(Absent, Absent), l, <<>>, Dji) :
        l \in {<<0, 0, 0>>, <<20, 20, 20>>}}
    \cup {Cam(Dji, FALSE, Meta(Absent, Absent), <<100, 100, 100>>, <<>>, Dji)}
    \cup {Cam(Img1, TRUE, Meta(Absent, Absent), l, <<>>, Img1) :
        l \in {<<10, 10, 10>>, <<10, 21, 10>>, <<23, 10, 25>>, <<10, 10, 40>>, <<>>}}
    \cup {Cam(Img1, FALSE, Meta(Absent, Absent), <<100, 100, 100>>, <<>>, Img1)}

\* (spatial_threshold, keep_ratio): the defaults 0.2 and 0.8, and 0 and 0.5
FlightArgs == {<<<<1, 5>>, <<4, 5>>>>, <<<<0, 1>>, <<1, 2>>>>}

InitFlight ==
    /\ op = "flight"
    /\ pc = "start"
    /\ NoSensors
    /\ cameras \in {WithIds(cs) : cs \in SeqsUpTo(FlightCams, MaxFlightCameras)}
    /\ cameras0 = cameras
    /\ args \in {[spatial_threshold |-> a[1], keep_ratio |-> a[2]] : a \in FlightArgs}
    /\ rgb_list = <<>> /\ ms_list = <<>> /\ time_offset = 0
    /\ del_camera_names = <<>> /\ ms_outside_area = <<>> /\ ret = "None"
    /\ NoDocument

\* lines 148-169: no RGB camera with a position, return 0
FlightNoRgb ==
    /\ op = "flight" /\ pc = "start"
    /\ Separate(cameras, 1, "DJI_") = <<>>
    /\ ms_list' = Separate(cameras, 1, "IMG_")
    /\ ret' = 0
    /\ pc' = "done"
    /\ UNCHANGED <<op, docVars, sensorVars, cameras, cameras0, args, rgb_list, time_offset,
                   del_camera_names, ms_outside_area>>

\* lines 148-173: no multispectral camera with a position, return 0
FlightNoMultispec ==
    /\ op = "flight" /\ pc = "start"
    /\ Separate(cameras, 1, "DJI_") # <<>>
    /\ Separate(cameras, 1, "IMG_") = <<>>
    /\ rgb_list' = Separate(cameras, 1, "DJI_")
    /\ ret' = 0
    /\ pc' = "done"
    /\ UNCHANGED <<op, docVars, sensorVars, cameras, cameras0, args, ms_list, time_offset,
                   del_camera_names, ms_outside_area>>

\* lines 148-219: the expanded percentile box and the cameras outside it
FlightBox ==
    /\ op = "flight" /\ pc = "start"
    /\ LET rgb_cameras == Separate(cameras, 1, "DJI_")
           ms_cameras == Separate(cameras, 1, "IMG_")
       IN /\ rgb_cameras # <<>>
          /\ ms_cameras # <<>>
          /\ rgb_list' = rgb_cameras
          /\ ms_list' = ms_cameras
          /\ ms_outside_area' =
                 OutsideBox(cameras, ms_cameras, 1,
                            ExpandedBox(cameras, rgb_cameras, args.spatial_threshold),
                            args.spatial_threshold)
    /\ pc' = "ratio"
    /\ UNCHANGED <<op, docVars, sensorVars, cameras, cameras0, args, time_offset,
                   del_camera_names, ret>>

\* line 223, false: the box result stands
FlightKeepBox ==
    /\ op = "flight" /\ pc = "ratio"
    /\ ~TooFewInside(Len(ms_list) - Len(ms_outside_area), Len(ms_list),
                     args.keep_ratio)
    /\ pc' = "remove"
    /\ UNCHANGED <<op, docVars, sensorVars, cameraVars>>

\* lines 223-252: too few inside the box, filter on the altitude alone
FlightAltitude ==
    /\ op = "flight" /\ pc = "ratio"
    /\ TooFewInside(Len(ms_list) - Len(ms_outside_area), Len(ms_list),
                    args.keep_ratio)
    /\ ms_outside_area' = OutsideAltitude(cameras, ms_list, 1, rgb_list)
    /\ pc' = "remove"
    /\ UNCHANGED <<op, docVars, sensorVars, cameras, cameras0, args, rgb_list, ms_list,
                   time_offset, del_camera_names, ret>>

\* lines 254-261: remove the cameras outside, return their number
FlightRemove ==
    /\ op = "flight" /\ pc = "remove"
    /\ cameras' = IF ms_outside_area # <<>>
                  THEN RemoveIds(cameras, RangeOf(ms_outside_area))
                  ELSE cameras
    /\ ret' = ReturnValue(ms_outside_area, ms_list)
    /\ pc' = "done"
    /\ UNCHANGED <<op, docVars, sensorVars, cameras0, args, rgb_list, ms_list, time_offset,
                   del_camera_names, ms_outside_area>>

NextFlight ==
    \/ FlightNoRgb
    \/ FlightNoMultispec
    \/ FlightBox
    \/ FlightKeepBox
    \/ FlightAltitude
    \/ FlightRemove

SpecFlight == InitFlight /\ [][NextFlight]_vars

(***************************************************************************)
(* Properties of filter_multispec_by_flight_pattern                        *)
(***************************************************************************)
FlightReturned == op = "flight" /\ pc = "done"

\* the cameras the function considers, at the call
Rgb0 == {c \in Cams0 : c.enabled /\ c.loc # <<>> /\ StartsWith(c.label, "DJI_")}
Ms0 == {c \in Cams0 : c.enabled /\ c.loc # <<>> /\ StartsWith(c.label, "IMG_")}

\* the RGB coordinates on one axis, in chunk order
RgbColumn(axis) == Column(cameras0, Separate(cameras0, 1, "DJI_"), axis)

\* the 5th and 95th percentile of the RGB coordinates on each axis, times 20
Percentiles ==
    [axis \in 1..3 |-> [p5 |-> Percentile20(RgbColumn(axis), 5),
                        p95 |-> Percentile20(RgbColumn(axis), 95)]]

\* v within [P5 - t * (P95 - P5), P95 + t * (P95 - P5)], all times 20 * t[2]
WithinExpanded(v, p) ==
    LET t == args.spatial_threshold
    IN /\ 20 * t[2] * v >= t[2] * p.p5 - t[1] * (p.p95 - p.p5)
       /\ 20 * t[2] * v <= t[2] * p.p95 + t[1] * (p.p95 - p.p5)

\* the considered multispectral cameras outside the box on at least one axis
MsOutOfBox ==
    LET p == Percentiles
    IN {c \in Ms0 : \E axis \in 1..3 : ~WithinExpanded(c.loc[axis], p[axis])}

\* at least keep_ratio of the considered multispectral cameras are in the box
EnoughInBox ==
    Cardinality(Ms0 \ MsOutOfBox) * args.keep_ratio[2]
        >= args.keep_ratio[1] * Cardinality(Ms0)

\* C6: when at least keep_ratio of the considered multispectral cameras lie
\* inside the expanded box, filter_multispec_by_flight_pattern removes exactly
\* the enabled, positioned IMG_ cameras outside the box on at least one axis;
\* and it never removes a DJI_ camera.
C6_BoxRemoval ==
    FlightReturned =>
        /\ (Rgb0 # {} /\ Ms0 # {} /\ EnoughInBox) =>
               cameras = RemoveIds(cameras0, {c.id : c \in MsOutOfBox})
        /\ \A c \in Cams0 : StartsWith(c.label, "DJI_") => c \in CamsNow

\* the box result stood: a camera outside on the z axis alone was removed and
\* one inside the box was kept
C6_Witness ==
    /\ FlightReturned
    /\ Rgb0 # {} /\ Ms0 # {} /\ EnoughInBox
    /\ \E c \in Ms0 : /\ WithinExpanded(c.loc[1], Percentiles[1])
                      /\ WithinExpanded(c.loc[2], Percentiles[2])
                      /\ ~WithinExpanded(c.loc[3], Percentiles[3])
                      /\ c.id \in RemovedIds
    /\ \E c \in Ms0 \ MsOutOfBox : c \in CamsNow
    /\ Cardinality(Rgb0) >= 2

\* the RGB altitudes: their number, sum and sum of squares
RgbAltitudes ==
    LET column == RgbColumn(3)
    IN [n |-> Len(column), sum |-> SumSeq(column, 1),
        squares |-> SumSeq([k \in DOMAIN column |-> column[k] * column[k]], 1)]

\* n * n times the variance of the RGB altitudes
Variance2(alt) == alt.n * alt.squares - alt.sum * alt.sum

\* z within [mean - 2 * std, mean + 2 * std]: (z - mean)^2 <= 4 * variance
WithinTwoStd(z, alt) ==
    (alt.n * z - alt.sum) * (alt.n * z - alt.sum) <= 4 * Variance2(alt)

MsOutOfAltitude ==
    LET alt == RgbAltitudes
    IN {c \in Ms0 : ~WithinTwoStd(c.loc[3], alt)}

\* C7: when fewer than keep_ratio of the considered multispectral cameras
\* lie inside the expanded box, filter_multispec_by_flight_pattern removes
\* exactly the considered IMG_ cameras whose altitude is outside
\* [mean - 2 * std, mean + 2 * std] of the RGB altitudes, whatever their x and y.
C7_AltitudeFallback ==
    (FlightReturned /\ Rgb0 # {} /\ Ms0 # {} /\ ~EnoughInBox) =>
        cameras = RemoveIds(cameras0, {c.id : c \in MsOutOfAltitude})

\* the fallback ran with RGB altitudes that differ: a camera outside the box
\* on x or y was kept and one outside the altitude range was removed
C7_Witness ==
    /\ FlightReturned
    /\ Rgb0 # {} /\ Ms0 # {} /\ ~EnoughInBox
    /\ Variance2(RgbAltitudes) > 0
    /\ \E c \in MsOutOfBox : c \in CamsNow
    /\ \E c \in MsOutOfAltitude : c.id \in RemovedIds

\* C8 as stated: after the call at least keep_ratio of the multispectral
\* cameras considered are still in the chunk.
C8_AsStated ==
    FlightReturned =>
        Cardinality({c \in Ms0 : c.id \in IdsOf(cameras)}) * args.keep_ratio[2]
            >= args.keep_ratio[1] * Cardinality(Ms0)

\* C9: filter_multispec_by_flight_pattern returns the number of cameras it
\* removed, all of them IMG_ cameras; with no enabled positioned DJI_ camera
\* or no enabled positioned IMG_ camera it returns 0 and removes nothing.
C9_ReturnsRemoved ==
    FlightReturned =>
        /\ ret = Cardinality(RemovedIds)
        /\ \A c \in Cams0 : c.id \in RemovedIds => StartsWith(c.label, "IMG_")
        /\ (Rgb0 = {} \/ Ms0 = {}) => (ret = 0 /\ cameras = cameras0)

\* one of two considered multispectral cameras was removed, and 1 returned
C9_Witness ==
    /\ FlightReturned
    /\ ret = 1
    /\ Cardinality(RemovedIds) = 1
    /\ Cardinality(Ms0) = 2

(***************************************************************************)
(* The timestamp filters on chunks that differ in the other attributes.    *)
(***************************************************************************)

\* the labels of the cameras of cs that are not in the chunk after a run
Discards(cs, after) ==
    {cs[k].label : k \in {j \in DOMAIN cs : cs[j].id \notin IdsOf(after)}}

\* chunks whose cameras share (label, timestamp) pairs and differ in the
\* other attributes
There == <<7, 7, 70>>

Variants(label, other, t) ==
    {Cam(label, TRUE, Meta(t, Absent), Here, <<>>, label),
     Cam(label, FALSE, Meta(t, Absent), There, <<>>, label),
     Cam(label, TRUE, Meta(t, Absent), <<>>, <<>>, label),
     Cam(label, TRUE, Meta(t, Absent), Here, <<"Calibration images">>, label),
     Cam(label, TRUE, Meta(t, Absent), Here, <<>>, other)}

PureCams ==
    {Cam(Dji, TRUE, Meta(T1330, Absent), Here, <<>>, Dji),
     Cam(Dji, FALSE, Meta(T1600, Absent), There, <<>>, Dji)}
    \cup Variants(Img1, Img2, T1330) \cup Variants(Img2, Img1, T2200)

InitPure ==
    /\ op \in {"remove", "filter"}
    /\ pc = "start"
    /\ NoSensors
    /\ cameras \in {WithIds(cs) : cs \in SeqsUpTo(PureCams, MaxCameras)}
    /\ cameras0 = cameras
    /\ args \in IF op = "remove" THEN {<<>>}
                ELSE {[time_buffer_seconds |-> b] : b \in Buffers}
    /\ rgb_list = <<>> /\ ms_list = <<>> /\ time_offset = 0
    /\ del_camera_names = <<>> /\ ms_outside_area = <<>> /\ ret = "None"
    /\ NoDocument

SpecPure == InitPure /\ [][NextTimestampFilters]_vars

(***************************************************************************)
(* The timestamp filters as functions: claims                              *)
(***************************************************************************)
DiscardedLabels == {c.label : c \in {x \in Cams0 : x.id \in RemovedIds}}

\* the camera with the same label and timestamp and no attribute out of
\* the ordinary
Plain(c) ==
    [c EXCEPT !.enabled = TRUE, !.loc = Here, !.group = <<>>,
              !.master_label = c.label]

PlainChunk == [k \in DOMAIN cameras0 |-> Plain(cameras0[k])]

\* C12 (as stated): each timestamp filter discards the labels it discards
\* on the chunk with the same (label, timestamp) pairs whose cameras are
\* all enabled, located, ungrouped masters; so any two chunks with the same
\* pairs get the same discarded labels, whatever the other attributes.
C12_AsStated ==
    /\ RemoveReturned => DiscardedLabels = Discards(PlainChunk, RemoveRun(PlainChunk))
    /\ FilterReturned =>
           DiscardedLabels = Discards(PlainChunk, FilterRun(PlainChunk, args.time_buffer_seconds))

\* what remove_images_outside_rgb_times reads of a camera besides label
\* and timestamp: its master, whether it has a location, its group
RemoveReads(c) ==
    [c EXCEPT !.enabled = TRUE, !.loc = IF c.loc = <<>> THEN <<>> ELSE Here]

\* what filter_images_by_timestamp reads besides: the enabled flag
FilterReads(c) ==
    [c EXCEPT !.loc = Here, !.group = <<>>, !.master_label = c.label]

\* C12 (amended): the labels remove_images_outside_rgb_times discards are a
\* function of the cameras' label, timestamp, master, group and of whether
\* a reference location is present (not of the enabled flag nor of the
\* coordinates); those filter_images_by_timestamp discards are a function
\* of label, timestamp and enabled flag (not of location, group or master).
C12_FunctionOfWhatIsRead ==
    /\ RemoveReturned =>
           LET cs == [k \in DOMAIN cameras0 |-> RemoveReads(cameras0[k])]
           IN  DiscardedLabels = Discards(cs, RemoveRun(cs))
    /\ FilterReturned =>
           LET cs == [k \in DOMAIN cameras0 |-> FilterReads(cameras0[k])]
           IN  DiscardedLabels =
                   Discards(cs, FilterRun(cs, args.time_buffer_seconds))

C12_Witness ==
    /\ RemoveReturned
    /\ \E c \in Cams0 : ~c.enabled /\ c.loc = There /\ c.id \in RemovedIds
    /\ \E c \in Cams0 : c.loc = <<>> /\ c.id \notin RemovedIds
                        /\ StartsWith(c.label, "IMG_")

(***************************************************************************)
(* Marker files.  A line of a .mrk file is its fields and the separator    *)
(* between them; a field is a string.  The script metashape_load_multispec *)
(* and the module metashape/markers.py each have a read_marker_file and a  *)
(* load_markers of their own.                                              *)
(***************************************************************************)
MaxFiles == 2           \* .mrk files handed to load_markers

Line(sep, fields) == [hash |-> FALSE, sep |-> sep, fields |-> fields]

CommentLine == [hash |-> TRUE, sep |-> " ", fields |-> <<"#", "markers">>]

\* float(s): the strings that convert, and their values
IsFloat(s) == s \in {"1", "2", "3"}

Float(s) == CASE s = "1" -> 1 [] s = "2" -> 2 [] s = "3" -> 3

\* line.strip().split(separator); split(None) splits on blanks and on tabs,
\* an empty line gives [''], and [] when split on blanks
Split(line, separator) ==
    IF line.fields = <<>>
    THEN IF separator = "None" THEN <<>> ELSE <<"">>
    ELSE IF \/ line.sep = separator
            \/ separator = "None" /\ line.sep \in {" ", "\t"}
    THEN line.fields
    ELSE <<"whole line">>

\* [p.strip() for p in parts if p.strip()]
RECURSIVE Clean(_)
Clean(parts) ==
    IF parts = <<>> THEN <<>>
    ELSE (IF Head(parts) = "" THEN <<>> ELSE <<Head(parts)>>) \o Clean(Tail(parts))

\* markers[name] = (x, y, z): dict assignment keeps the place of a name
\* that is already there
RECURSIVE DictSet(_, _, _)
DictSet(d, name, coords) ==
    IF d = <<>> THEN <<[name |-> name, coords |-> coords]>>
    ELSE IF Head(d).name = name
         THEN <<[name |-> name, coords |-> coords]>> \o Tail(d)
    ELSE <<Head(d)>> \o DictSet(Tail(d), name, coords)

CoordsOf(parts) == <<Float(parts[2]), Float(parts[3]), Float(parts[4])>>

NumericCoords(parts) == IsFloat(parts[2]) /\ IsFloat(parts[3]) /\ IsFloat(parts[4])

Unreadable == [readable |-> FALSE, lines |-> <<>>]

File(lines) == [readable |-> TRUE, lines |-> lines]

Read(ms) == [raised |-> "None", markers |-> ms]

Raise(e) == [raised |-> e, markers |-> <<>>]

\* metashape_load_multispec.py, read_marker_file: the loop over the lines
RECURSIVE ScriptReadLines(_, _, _)
ScriptReadLines(lines, k, d) ==
    IF k > Len(lines) THEN Read(d)
    ELSE IF lines[k].hash THEN ScriptReadLines(lines, k + 1, d)
    ELSE LET parts == Split(lines[k], ",")
         IN  IF Len(parts) >= 4
             THEN IF NumericCoords(parts)
                  THEN ScriptReadLines(lines, k + 1,
                                       DictSet(d, parts[1], CoordsOf(parts)))
                  ELSE Raise("ValueError")
             ELSE ScriptReadLines(lines, k + 1, d)

\* metashape_load_multispec.py, read_marker_file
ScriptReadMarkerFile(file) ==
    IF ~file.readable THEN Raise("OSError")
    ELSE ScriptReadLines(file.lines, 1, <<>>)

\* markers.py, lines 42-50: the separators in turn, until one gives four
\* parts that are still four once the empty ones are dropped
RECURSIVE TrySeparators(_, _, _)
TrySeparators(line, seps, k) ==
    LET parts == Split(line, seps[k])
        cleaned == IF Len(parts) >= 4 THEN Clean(parts) ELSE parts
    IN  IF Len(cleaned) >= 4 \/ k = Len(seps) THEN cleaned
        ELSE TrySeparators(line, seps, k + 1)

\* markers.py, read_marker_file: the loop over the lines
RECURSIVE ReadLines(_, _, _)
ReadLines(lines, k, d) ==
    IF k > Len(lines) THEN Read(d)
    ELSE IF lines[k].fields = <<>> \/ lines[k].hash
         THEN ReadLines(lines, k + 1, d)
    ELSE LET parts == TrySeparators(lines[k], <<",", "\t", "None">>, 1)
         IN  IF Len(parts) < 4 THEN ReadLines(lines, k + 1, d)
             ELSE IF NumericCoords(parts)
                  THEN ReadLines(lines, k + 1,
                                 DictSet(d, parts[1], CoordsOf(parts)))
             ELSE ReadLines(lines, k + 1, d)

\* markers.py, read_marker_file
read_marker_file(file) ==
    IF ~file.readable THEN Raise("OSError")
    ELSE ReadLines(file.lines, 1, <<>>)

\* chunk.addMarker() and the three assignments, for every item of the dict
AddMarkers(ms, d) ==
    ms \o [k \in 1..Len(d) |->
              [label |-> d[k].name, location |-> d[k].coords, enabled |-> TRUE]]

\* the lines and the files of the model
OkA == Line(",", <<"A", "1", "2", "3">>)
OkB == Line(",", <<"B", "2", "3", "1">>)
TabC == Line("\t", <<"C", "3", "1", "2">>)
ShortD == Line(",", <<"D", "1", "2">>)
WordD == Line(",", <<"D", "x", "2", "3">>)
BlankLine == Line(",", <<>>)

MarkerFiles ==
    {Unreadable, File(<<>>), File(<<OkA, OkB>>), File(<<ShortD, OkA>>),
     File(<<OkB, WordD>>), File(<<WordD, OkA>>), File(<<CommentLine, TabC>>),
     File(<<BlankLine, OkA>>)}

\* a marker the chunk may hold before the call
OldMarker == [label |-> "point 1", location |-> <<0, 0, 0>>, enabled |-> FALSE]

NoChunk ==
    /\ sensors = <<>> /\ sensors0 = <<>> /\ multispec_sensors = <<>>
    /\ panchro_sensor = NoSensor /\ index_mapping = EmptyDict
    /\ master_sensor = NoSensor
    /\ cameras = <<>> /\ cameras0 = <<>>
    /\ rgb_list = <<>> /\ ms_list = <<>> /\ time_offset = 0
    /\ del_camera_names = <<>> /\ ms_outside_area = <<>>

InitMarkers ==
    /\ op \in {"script.load_markers", "markers.load_markers"}
    /\ pc = "start"
    /\ NoChunk
    /\ args \in {[mrk_files |-> fs] : fs \in SeqsUpTo(MarkerFiles, MaxFiles)}
    /\ markers \in {<<>>, <<OldMarker>>}
    /\ markers0 = markers
    /\ markers_loaded = 0
    /\ i = 0
    /\ ret = "None"
    /\ raised = "None"
    /\ app = [gpu_mask |-> {}, cpu_enable |-> TRUE]
    /\ doc = <<>> /\ doc0 = <<>> /\ trace = <<>>

markerFrame == <<op, args, markers0, app, doc, doc0, trace, sensors, sensors0,
                 multispec_sensors, panchro_sensor, index_mapping, master_sensor,
                 cameras, cameras0, rgb_list, ms_list, time_offset,
                 del_camera_names, ms_outside_area>>

\* metashape_load_multispec.py, lines 209-211: no files, return False
ScriptLoadNoFiles ==
    /\ op = "script.load_markers" /\ pc = "start"
    /\ args.mrk_files = <<>>
    /\ ret' = FALSE
    /\ pc' = "done"
    /\ UNCHANGED <<markerFrame, i, markers, markers_loaded, raised>>

\* metashape_load_multispec.py, lines 214-227: one file of the loop; an
\* exception of read_marker_file leaves load_markers
ScriptLoadFile ==
    /\ op = "script.load_markers" /\ pc \in {"start", "loop"}
    /\ i < Len(args.mrk_files)
    /\ LET r == ScriptReadMarkerFile(args.mrk_files[i + 1])
       IN  IF r.raised # "None"
           THEN /\ raised' = r.raised
                /\ pc' = "raised"
                /\ UNCHANGED markers
           ELSE /\ markers' = AddMarkers(markers, r.markers)
                /\ pc' = "loop"
                /\ UNCHANGED raised
    /\ i' = i + 1
    /\ UNCHANGED <<markerFrame, ret, markers_loaded>>

\* metashape_load_multispec.py, line 229: return True
ScriptLoadReturn ==
    /\ op = "script.load_markers" /\ pc = "loop"
    /\ i = Len(args.mrk_files)
    /\ ret' = TRUE
    /\ pc' = "done"
    /\ UNCHANGED <<markerFrame, i, markers, markers_loaded, raised>>

\* markers.py, lines 78-80: no files, return 0
LoadNoFiles ==
    /\ op = "markers.load_markers" /\ pc = "start"
    /\ args.mrk_files = <<>>
    /\ ret' = 0
    /\ pc' = "done"
    /\ UNCHANGED <<markerFrame, i, markers, markers_loaded, raised>>

\* markers.py, lines 85-103: one file of the loop; an exception is printed
LoadFile ==
    /\ op = "markers.load_markers" /\ pc \in {"start", "loop"}
    /\ i < Len(args.mrk_files)
    /\ LET r == read_marker_file(args.mrk_files[i + 1])
       IN  IF r.raised # "None"
           THEN UNCHANGED <<markers, markers_loaded>>
           ELSE /\ markers' = AddMarkers(markers, r.markers)
                /\ markers_loaded' = markers_loaded + Len(r.markers)
    /\ i' = i + 1
    /\ pc' = "loop"
    /\ UNCHANGED <<markerFrame, ret, raised>>

\* markers.py, lines 105-108: return markers_loaded
LoadReturn ==
    /\ op = "markers.load_markers" /\ pc = "loop"
    /\ i = Len(args.mrk_files)
    /\ ret' = markers_loaded
    /\ pc' = "done"
    /\ UNCHANGED <<markerFrame, i, markers, markers_loaded, raised>>

NextMarkers ==
    \/ ScriptLoadNoFiles
    \/ ScriptLoadFile
    \/ ScriptLoadReturn
    \/ LoadNoFiles
    \/ LoadFile
    \/ LoadReturn

SpecMarkers == InitMarkers /\ [][NextMarkers]_vars

(***************************************************************************)
(* Marker loading: claims                                                  *)
(***************************************************************************)
LoadOp == op \in {"script.load_markers", "markers.load_markers"}

Files0 == args.mrk_files

\* a line of four comma-separated fields, the last three numeric
WellFormed(line) ==
    /\ ~line.hash /\ line.sep = ","
    /\ Len(line.fields) >= 4
    /\ \A k \in 2..4 : line.fields[k] \in {"1", "2", "3"}

Malformed(line) ==
    /\ ~line.hash /\ line.sep = ","
    /\ line.fields # <<>>
    /\ ~WellFormed(line)

Broken(file) ==
    \/ ~file.readable
    \/ \E k \in DOMAIN file.lines : Malformed(file.lines[k])

HasMarkerOf(line) ==
    \E k \in (Len(markers0) + 1)..Len(markers) :
        /\ markers[k].label = line.fields[1]
        /\ markers[k].location =
               <<Float(line.fields[2]), Float(line.fields[3]), Float(line.fields[4])>>

WellFormedLoaded ==
    \A f \in DOMAIN Files0 : \A k \in DOMAIN Files0[f].lines :
        WellFormed(Files0[f].lines[k]) => HasMarkerOf(Files0[f].lines[k])

\* C11 (as stated): in both load_markers no exception leaves the loading,
\* and once it has gone through the files every well-formed line of every
\* file has its marker in the chunk, malformed lines and unreadable files
\* among them or not.
C11_AsStated ==
    LoadOp => /\ raised = "None"
              /\ (pc = "done" => WellFormedLoaded)

\* markers.load_markers alone is print-and-continue
C11_ModuleContinues ==
    op = "markers.load_markers" =>
        /\ raised = "None"
        /\ (pc = "done" => WellFormedLoaded)

C11_ModuleWitness ==
    /\ op = "markers.load_markers" /\ pc = "done"
    /\ \E f \in DOMAIN Files0 : Broken(Files0[f])
    /\ \E f \in DOMAIN Files0 : ~Files0[f].readable
    /\ Len(markers) > Len(markers0)

\* C15 (as stated): load_markers of metashape_load_multispec returns True
\* exactly when it added at least one marker to the chunk.
C15_AsStated ==
    (op = "script.load_markers" /\ pc = "done") =>
        (ret = TRUE <=> Len(markers) > Len(markers0))

(***************************************************************************)
(* setup_gpu.  gpu_mask is kept as the set of its bits that are 1: bit k   *)
(* stands for device k, and the mask value is the sum of 2^k over the set. *)
(***************************************************************************)
MaxGpus == 3            \* devices enumGPUDevices() may list

\* 2 ** 32 - 1: the bits 0..31
AllGpus == 0..31

\* 1 << k
Bit(k) == {k}

MaskKeepAll(gpu_list, mask) == mask

\* lines 30-35: the mask after the test on the number of devices
MaskFor(gpu_list, mask) == IF Len(gpu_list) > 1 THEN Bit(1) ELSE mask

GpuNames == {"Intel", "NVIDIA"}

InitGpu ==
    /\ op = "setup_gpu"
    /\ pc = "start"
    /\ NoChunk
    /\ args \in {[gpu_list |-> g] : g \in SeqsUpTo(GpuNames, MaxGpus)}
    /\ app \in [gpu_mask : {{}, {0}, AllGpus}, cpu_enable : BOOLEAN]
    /\ i = 0
    /\ ret = "None"
    /\ markers = <<>> /\ markers0 = <<>> /\ markers_loaded = 0
    /\ raised = "None"
    /\ doc = <<>> /\ doc0 = <<>> /\ trace = <<>>

gpuFrame == <<op, args, i, ret, markers, markers0, markers_loaded, raised, doc,
              doc0, trace, sensors, sensors0, multispec_sensors, panchro_sensor,
              index_mapping, master_sensor, cameras, cameras0, rgb_list, ms_list,
              time_offset, del_camera_names, ms_outside_area>>

\* lines 14-18: all GPUs on, CPU off, then the devices enumerated
GpuEnableAll ==
    /\ op = "setup_gpu" /\ pc = "start"
    /\ app' = [gpu_mask |-> AllGpus, cpu_enable |-> FALSE]
    /\ pc' = "enumerated"
    /\ UNCHANGED gpuFrame

\* lines 20-23: no device, CPU on, return
GpuNone ==
    /\ op = "setup_gpu" /\ pc = "enumerated"
    /\ args.gpu_list = <<>>
    /\ app' = [app EXCEPT !.cpu_enable = TRUE]
    /\ pc' = "done"
    /\ UNCHANGED gpuFrame

\* lines 25-37: device 1 alone when there is more than one device
GpuSelect ==
    /\ op = "setup_gpu" /\ pc = "enumerated"
    /\ args.gpu_list # <<>>
    /\ app' = [app EXCEPT !.gpu_mask = MaskFor(args.gpu_list, app.gpu_mask)]
    /\ pc' = "done"
    /\ UNCHANGED gpuFrame

NextGpu ==
    \/ GpuEnableAll
    \/ GpuNone
    \/ GpuSelect

SpecGpu == InitGpu /\ [][NextGpu]_vars

(***************************************************************************)
(* setup_gpu: claims                                                       *)
(***************************************************************************)
GpuReturned == op = "setup_gpu" /\ pc = "done"

Enumerated == Len(args.gpu_list)

\* C13: after setup_gpu returns, with no device CPU processing is on; with
\* two or more devices gpu_mask is 2 (bit 1 alone, device 1) and CPU
\* processing is off; with one device gpu_mask has all 32 bits set and CPU is
\* off; so cpu_enable holds exactly when no device was found.
C13_GpuSetup ==
    GpuReturned =>
        /\ Enumerated = 0 => app.cpu_enable
        /\ Enumerated >= 2 => app.gpu_mask = {1} /\ ~app.cpu_enable
        /\ Enumerated = 1 => app.gpu_mask = 0..31 /\ ~app.cpu_enable
        /\ app.cpu_enable <=> Enumerated = 0

C13_Witness ==
    /\ GpuReturned
    /\ Enumerated >= 2
    /\ app.gpu_mask = {1}

(***************************************************************************)
(* The document.  A chunk carries a key that tells the chunks apart, its   *)
(* label, its cameras, its sensors and its markers.                        *)
(***************************************************************************)
MaxImages == 2          \* RGB images handed to merge_chunks
MaxRgbSensors == 2      \* sensors of the RGB chunk

Chunk(key, label, cs, ss, ms) ==
    [key |-> key, label |-> label, cameras |-> cs, sensors |-> ss, markers |-> ms]

KeysOf(d) == {d[k].key : k \in DOMAIN d}

ChunkAt(d, key) == d[CHOOSE k \in DOMAIN d : d[k].key = key]

SetChunk(d, key, c) == [k \in DOMAIN d |-> IF d[k].key = key THEN c ELSE d[k]]

DocKeep(d, key) == d

\* doc.remove(chunk)
DocRemove(d, key) == SelectSeq(d, LAMBDA c : c.key # key)

\* an image file: the label and the metadata its camera will carry
Photo(label, t, loc) == [label |-> label, meta |-> Meta(t, Absent), loc |-> loc]

FreshId(cs) == IF cs = <<>> THEN 0 ELSE MaxOf(IdsOf(cs))

\* chunk.addPhotos(images): one new camera per image, after the others
AddPhotos(c, images) ==
    [c EXCEPT !.cameras = c.cameras \o
        [k \in 1..Len(images) |->
            [id |-> FreshId(c.cameras) + k]
            @@ Cam(images[k].label, TRUE, images[k].meta, images[k].loc, <<>>,
                   images[k].label)]]

FullSensor(label, type, width, height, pixel_size, focal_length, fixed, location_ref, layer_index) ==
    [label |-> label, type |-> type, width |-> width, height |-> height,
     pixel_size |-> pixel_size, focal_length |-> focal_length, fixed |-> fixed,
     location_ref |-> location_ref, layer_index |-> layer_index]

\* chunk.addSensor(): a sensor with no settings yet
BlankSensor == FullSensor(<<>>, "Frame", 0, 0, 0, 0, FALSE, <<0, 0, 0>>, 0)

\* lines 133-141: a new sensor with the eight settings of the given one
CopySensor(sensor) ==
    [BlankSensor EXCEPT !.label = sensor.label, !.type = sensor.type,
                        !.width = sensor.width, !.height = sensor.height,
                        !.pixel_size = sensor.pixel_size,
                        !.focal_length = sensor.focal_length,
                        !.fixed = sensor.fixed,
                        !.location_ref = sensor.location_ref]

AddSensor(c, sensor) == [c EXCEPT !.sensors = Append(c.sensors, sensor)]

\* the chunks merge_chunks is given
RgbPhotos == {Photo(Dji, F1200, Here), Photo(<<"DJI_", "0002">>, F1201, There)}

RgbSensors ==
    {FullSensor(<<"FC6310">>, "Frame", 5472, 3648, 2, 9, FALSE, <<0, 0, 0>>, 0),
     FullSensor(<<"FC6310", "wide">>, "Fisheye", 4000, 3000, 3, 4, TRUE, <<1, 0, 0>>, 0)}

MsSensors ==
    <<FullSensor(<<"Blue">>, "Frame", 1456, 1088, 3, 5, FALSE, <<0, 0, 0>>, 0),
      FullSensor(<<"MS", "Panchro">>, "Frame", 2464, 2056, 2, 16, FALSE, <<0, 0, 0>>, 10)>>

MsPhotos == {Photo(Img1, F1200, Here), Photo(Img2, F1202, <<>>)}

Loaded(images) == AddPhotos(Chunk("", <<>>, <<>>, <<>>, <<>>), images).cameras

InitMerge ==
    /\ op = "merge_chunks"
    /\ pc = "start"
    /\ NoChunk
    /\ \E rgb_images \in SeqsUpTo(RgbPhotos, MaxImages),
          ms_images \in SeqsUpTo(MsPhotos, MaxImages),
          ss \in SeqsUpTo(RgbSensors, MaxRgbSensors),
          ms \in {<<>>, <<OldMarker>>} :
          /\ args = [rgb_chunk |-> "rgb", multispec_chunk |-> "multispec",
                     rgb_images |-> rgb_images]
          /\ doc = <<Chunk("rgb", "rgb_images", Loaded(rgb_images), ss, ms),
                     Chunk("multispec", "multispec_images", Loaded(ms_images),
                           MsSensors, <<>>)>>
    /\ doc0 = doc
    /\ i = 0
    /\ ret = "None"
    /\ markers = <<>> /\ markers0 = <<>> /\ markers_loaded = 0
    /\ raised = "None"
    /\ app = [gpu_mask |-> {}, cpu_enable |-> TRUE]
    /\ trace = <<>>

mergeFrame == <<op, args, doc0, markers, markers0, markers_loaded, raised, app,
                trace, sensors, sensors0, multispec_sensors, panchro_sensor,
                index_mapping, master_sensor, cameras, cameras0, rgb_list, ms_list,
                time_offset, del_camera_names, ms_outside_area>>

\* processing.py, lines 126-128: the RGB images added to the multispectral chunk
MergeAddPhotos ==
    /\ op = "merge_chunks" /\ pc = "start"
    /\ doc' = SetChunk(doc, args.multispec_chunk,
                       AddPhotos(ChunkAt(doc, args.multispec_chunk), args.rgb_images))
    /\ pc' = "sensors"
    /\ UNCHANGED <<mergeFrame, i, ret>>

\* processing.py, lines 131-141: one sensor of the RGB chunk copied
MergeAddSensor ==
    /\ op = "merge_chunks" /\ pc = "sensors"
    /\ i < Len(ChunkAt(doc, args.rgb_chunk).sensors)
    /\ doc' = SetChunk(doc, args.multispec_chunk,
                       AddSensor(ChunkAt(doc, args.multispec_chunk),
                                 CopySensor(ChunkAt(doc, args.rgb_chunk).sensors[i + 1])))
    /\ i' = i + 1
    /\ UNCHANGED <<mergeFrame, pc, ret>>

\* processing.py, lines 144-147: the RGB chunk removed, the other returned
MergeRemove ==
    /\ op = "merge_chunks" /\ pc = "sensors"
    /\ i = Len(ChunkAt(doc, args.rgb_chunk).sensors)
    /\ doc' = DocRemove(doc, args.rgb_chunk)
    /\ ret' = args.multispec_chunk
    /\ pc' = "done"
    /\ UNCHANGED <<mergeFrame, i>>

NextMerge ==
    \/ MergeAddPhotos
    \/ MergeAddSensor
    \/ MergeRemove

SpecMerge == InitMerge /\ [][NextMerge]_vars

(***************************************************************************)
(* merge_chunks: claims                                                    *)
(***************************************************************************)
MergeReturned == op = "merge_chunks" /\ pc = "done"

RgbAtCall == ChunkAt(doc0, args.rgb_chunk)

MsAtCall == ChunkAt(doc0, args.multispec_chunk)

\* C14: after merge_chunks the RGB chunk is no longer in the document, the
\* chunk returned is the multispectral chunk given and is in the document,
\* it holds every camera it held before, then one camera per RGB image,
\* and it has one more sensor per sensor of the RGB chunk, labelled alike.
C14_Merge ==
    MergeReturned =>
        /\ args.rgb_chunk \notin KeysOf(doc)
        /\ ret = args.multispec_chunk
        /\ ret \in KeysOf(doc)
        /\ LET merged == ChunkAt(doc, ret)
               before == Len(MsAtCall.cameras)
               sensors_before == Len(MsAtCall.sensors)
           IN  /\ Len(merged.cameras) = before + Len(args.rgb_images)
               /\ \A k \in 1..before : merged.cameras[k] = MsAtCall.cameras[k]
               /\ \A k \in DOMAIN args.rgb_images :
                      merged.cameras[before + k].label = args.rgb_images[k].label
               /\ Len(merged.sensors) = sensors_before + Len(RgbAtCall.sensors)
               /\ \A k \in 1..sensors_before : merged.sensors[k] = MsAtCall.sensors[k]
               /\ \A k \in DOMAIN RgbAtCall.sensors :
                      merged.sensors[sensors_before + k].label
                          = RgbAtCall.sensors[k].label

C14_Witness ==
    /\ MergeReturned
    /\ Len(RgbAtCall.sensors) = 2
    /\ Len(args.rgb_images) = 2
    /\ Len(MsAtCall.cameras) = 2
    /\ Len(ChunkAt(doc, ret).cameras) = 4
    /\ Len(ChunkAt(doc, ret).sensors) = 4

(***************************************************************************)
(* resume_proc and calibrate_reflectance_and_transform.  trace holds the   *)
(* calls made on the chunk and on the document, in order.                  *)
(***************************************************************************)
Call(name, arg) == [call |-> name, arg |-> arg]

SaveNot(t) == t

\* doc.save()
Save(t) == Append(t, Call("doc.save", <<>>))

\* sorted(..., key=lambda x: x.layer_index): stable, by insertion
RECURSIVE InsertByLayer(_, _)
InsertByLayer(sorted, sensor) ==
    IF sorted = <<>> THEN <<sensor>>
    ELSE IF sensor.layer_index < Head(sorted).layer_index
         THEN <<sensor>> \o sorted
    ELSE <<Head(sorted)>> \o InsertByLayer(Tail(sorted), sensor)

RECURSIVE SortedByLayer(_, _, _)
SortedByLayer(ss, k, sorted) ==
    IF k > Len(ss) THEN sorted
    ELSE SortedByLayer(ss, k + 1,
             IF ss[k].layer_index < 10 THEN InsertByLayer(sorted, ss[k]) ELSE sorted)

\* processing.py, lines 100-110: one "B<idx>/32768" per sensor below index 10
RasterFormula(ss) ==
    LET sorted_sensors == SortedByLayer(ss, 1, <<>>)
    IN  [k \in DOMAIN sorted_sensors |->
            <<"B", sorted_sensors[k].layer_index, "/32768">>]

\* the sensors of the chunk resume_proc is given
BandSensor(idx) == FullSensor(<<"Band">>, "Frame", 1456, 1088, 3, 5, FALSE, <<0, 0, 0>>, idx)

ResumeChunk(ss) ==
    [key |-> "multispec", label |-> "all_images", cameras |-> <<>>, sensors |-> ss,
     markers |-> <<>>, calibrated |-> FALSE,
     raster_transform |-> [formula |-> <<>>, enabled |-> FALSE]]

InitResume ==
    /\ op = "resume_proc"
    /\ pc = "start"
    /\ NoChunk
    /\ args \in [multispec_chunk : {"None", "multispec"}, sun_sensor : BOOLEAN]
    /\ doc \in {<<ResumeChunk(ss)>> :
                   ss \in SeqsUpTo({BandSensor(x) : x \in {0, 3, 10}}, MaxSensors)}
    /\ doc0 = doc
    /\ i = 0
    /\ ret = "None"
    /\ markers = <<>> /\ markers0 = <<>> /\ markers_loaded = 0
    /\ raised = "None"
    /\ app = [gpu_mask |-> {}, cpu_enable |-> TRUE]
    /\ trace = <<>>

resumeFrame == <<op, args, doc0, i, ret, markers, markers0, markers_loaded, app,
                 sensors, sensors0, multispec_sensors, panchro_sensor,
                 index_mapping, master_sensor, cameras, cameras0, rgb_list, ms_list,
                 time_offset, del_camera_names, ms_outside_area>>

\* resume.py, lines 12-13: no chunk, ValueError
ResumeRaise ==
    /\ op = "resume_proc" /\ pc = "start"
    /\ args.multispec_chunk = "None"
    /\ raised' = "ValueError"
    /\ pc' = "raised"
    /\ UNCHANGED <<resumeFrame, doc, trace>>

\* resume.py, lines 15-18, processing.py, line 96: calibrateReflectance
ResumeCalibrate ==
    /\ op = "resume_proc" /\ pc = "start"
    /\ args.multispec_chunk # "None"
    /\ doc' = SetChunk(doc, args.multispec_chunk,
                  [ChunkAt(doc, args.multispec_chunk) EXCEPT !.calibrated = TRUE])
    /\ trace' = Append(trace, Call("calibrateReflectance",
                                   [use_reflectance_panels |-> TRUE,
                                    use_sun_sensor |-> args.sun_sensor]))
    /\ pc' = "transform"
    /\ UNCHANGED <<resumeFrame, raised>>

\* processing.py, lines 99-114: the formula set, the range calibrated, the
\* transform enabled
ResumeTransform ==
    /\ op = "resume_proc" /\ pc = "transform"
    /\ LET c == ChunkAt(doc, args.multispec_chunk)
           raster_transform_formula == RasterFormula(c.sensors)
       IN  /\ doc' = SetChunk(doc, args.multispec_chunk,
                         [c EXCEPT !.raster_transform =
                             [formula |-> raster_transform_formula, enabled |-> TRUE]])
           /\ trace' = trace \o <<Call("raster_transform.formula",
                                       raster_transform_formula),
                                  Call("raster_transform.calibrateRange", <<>>),
                                  Call("raster_transform.enabled", TRUE)>>
    /\ pc' = "save"
    /\ UNCHANGED <<resumeFrame, raised>>

\* processing.py, lines 116-117, resume.py, line 20: the document saved
ResumeSave ==
    /\ op = "resume_proc" /\ pc = "save"
    /\ trace' = Save(trace)
    /\ pc' = "done"
    /\ UNCHANGED <<resumeFrame, raised, doc>>

NextResume ==
    \/ ResumeRaise
    \/ ResumeCalibrate
    \/ ResumeTransform
    \/ ResumeSave

SpecResume == InitResume /\ [][NextResume]_vars

(***************************************************************************)
(* resume_proc: claims                                                     *)
(***************************************************************************)
Calls == [k \in DOMAIN trace |-> trace[k].call]

ResumeOrder ==
    <<"calibrateReflectance", "raster_transform.formula",
      "raster_transform.calibrateRange", "raster_transform.enabled", "doc.save">>

IsPrefix(a, b) == Len(a) <= Len(b) /\ \A k \in DOMAIN a : a[k] = b[k]

\* C16: resume_proc without a chunk raises ValueError and nothing has been
\* calibrated, transformed or saved; with a chunk the calls come in the order
\* calibrate reflectance, set and enable the raster transform, save, and when
\* it returns each has been made once, the save last.
C16_Resume ==
    op = "resume_proc" =>
        /\ args.multispec_chunk = "None" =>
               /\ trace = <<>> /\ doc = doc0
               /\ pc \in {"start", "raised"}
               /\ pc = "raised" => raised = "ValueError"
        /\ args.multispec_chunk # "None" =>
               /\ raised = "None"
               /\ IsPrefix(Calls, ResumeOrder)
               /\ pc = "done" => Calls = ResumeOrder

C16_Witness ==
    /\ op = "resume_proc" /\ pc = "done"
    /\ Calls = ResumeOrder
    /\ ChunkAt(doc, args.multispec_chunk).raster_transform.enabled
    /\ Len(ChunkAt(doc, args.multispec_chunk).raster_transform.formula) = 2

(***************************************************************************)
(* main of metashape_load_multispec.py, from the new project to the        *)
(* filtered chunk 'all_images'.                                            *)
(***************************************************************************)

\* configure_multispectral_camera as one function of the sensors
ConfigureRun(ss) ==
    LET ms == LayerSensors(ss, 1)
        p == FindPanchro(ss, ms, 1)
    IN  IF ms = <<>> \/ p = NoSensor THEN ss
        ELSE LET m == BuildMapping(ss, ms, 1, ss[p].layer_index, EmptyDict)
             IN  [k \in DOMAIN ss |->
                     IF ss[k].has_layer
                     THEN [ss[k] EXCEPT !.layer_index = (m[@] + temp_offset) - temp_offset]
                     ELSE ss[k]]

\* load_markers of the script as one function of the markers and the files
RECURSIVE ScriptLoadRun(_, _, _)
ScriptLoadRun(ms, files, k) ==
    IF k > Len(files) THEN Read(ms)
    ELSE LET r == ScriptReadMarkerFile(files[k])
         IN  IF r.raised # "None" THEN [raised |-> r.raised, markers |-> ms]
             ELSE ScriptLoadRun(AddMarkers(ms, r.markers), files, k + 1)

RECURSIVE AddSensors(_, _, _)
AddSensors(c, ss, k) ==
    IF k > Len(ss) THEN c
    ELSE AddSensors(AddSensor(c, CopySensor(ss[k])), ss, k + 1)

\* merge_chunks as one function of the document
MergeRun(d, rgb_chunk, multispec_chunk, rgb_images) ==
    DocRemove(SetChunk(d, multispec_chunk,
                       AddSensors(AddPhotos(ChunkAt(d, multispec_chunk), rgb_images),
                                  ChunkAt(d, rgb_chunk).sensors, 1)),
              rgb_chunk)

WithLayer(sensor) == [has_layer |-> TRUE] @@ sensor

\* the chunk a new document holds
DefaultChunk == Chunk("default", "Chunk 1", <<>>, <<>>, <<>>)

InitMain ==
    /\ op = "load_multispec"
    /\ pc = "start"
    /\ NoChunk
    /\ args \in [marker_files : SeqsUpTo(MarkerFiles, MaxFiles),
                 rgb_images : SeqsUpTo(RgbPhotos, MaxImages) \ {<<>>},
                 multispec_images : {<<Photo(Img1, F1200, Here), Photo(Img2, F1202, Here)>>},
                 time_buffer : Buffers]
    /\ doc \in {<<>>, <<DefaultChunk>>}
    /\ doc0 = doc
    /\ i = 0
    /\ ret = "None"
    /\ markers = <<>> /\ markers0 = <<>> /\ markers_loaded = 0
    /\ raised = "None"
    /\ app = [gpu_mask |-> {}, cpu_enable |-> TRUE]
    /\ trace = <<>>

mainFrame == <<op, args, doc0, i, ret, markers0, markers_loaded, app,
               sensors, sensors0, multispec_sensors, panchro_sensor,
               index_mapping, master_sensor, cameras, cameras0, rgb_list, ms_list,
               time_offset, del_camera_names, ms_outside_area>>

\* lines 281-308: the project saved, the empty default chunk removed, the
\* two chunks made and filled (both image lists are non-empty here: with an
\* empty one the script exits at lines 272-275)
MainCreateChunks ==
    /\ op = "load_multispec" /\ pc = "start"
    /\ LET kept == IF /\ Len(doc) = 1 /\ doc[1].label = "Chunk 1"
                      /\ Len(doc[1].cameras) = 0
                   THEN DocRemove(doc, doc[1].key) ELSE doc
           rgb_chunk == [AddPhotos(Chunk("rgb", "rgb_images", <<>>, <<>>, <<>>),
                                   args.rgb_images)
                            EXCEPT !.sensors = <<WithLayer(CHOOSE x \in RgbSensors :
                                                     x.type = "Frame")>>]
           multispec_chunk ==
               [AddPhotos(Chunk("multispec", "multispec_images", <<>>, <<>>, <<>>),
                          args.multispec_images)
                   EXCEPT !.sensors = [k \in DOMAIN MsSensors |-> WithLayer(MsSensors[k])]]
       IN  doc' = kept \o <<rgb_chunk, multispec_chunk>>
    /\ trace' = Save(trace)
    /\ pc' = "configure"
    /\ UNCHANGED <<mainFrame, markers, raised>>

\* line 311: configure_multispectral_camera(multispec_chunk)
MainConfigure ==
    /\ op = "load_multispec" /\ pc = "configure"
    /\ doc' = SetChunk(doc, "multispec",
                  [ChunkAt(doc, "multispec") EXCEPT !.sensors = ConfigureRun(@)])
    /\ pc' = "markers"
    /\ UNCHANGED <<mainFrame, markers, raised, trace>>

\* lines 314-315: load_markers(rgb_chunk, marker_files); an exception ends
\* the script
MainLoadMarkers ==
    /\ op = "load_multispec" /\ pc = "markers"
    /\ LET rgb_chunk == ChunkAt(doc, "rgb")
           r == IF args.marker_files # <<>>
                THEN ScriptLoadRun(rgb_chunk.markers, args.marker_files, 1)
                ELSE Read(rgb_chunk.markers)
       IN  /\ doc' = SetChunk(doc, "rgb", [rgb_chunk EXCEPT !.markers = r.markers])
           /\ markers' = r.markers
           /\ raised' = r.raised
           /\ pc' = IF r.raised # "None" THEN "raised" ELSE "panels"
    /\ UNCHANGED <<mainFrame, trace>>

\* lines 318-328: panels located, CRS set, the project saved
MainDetectPanels ==
    /\ op = "load_multispec" /\ pc = "panels"
    /\ trace' = Save(Append(trace, Call("locateReflectancePanels", <<>>)))
    /\ pc' = "merge"
    /\ UNCHANGED <<mainFrame, markers, raised, doc>>

\* lines 334-338: the chunks merged, the result labelled, the project saved
MainMerge ==
    /\ op = "load_multispec" /\ pc = "merge"
    /\ LET merged == MergeRun(doc, "rgb", "multispec", args.rgb_images)
       IN  doc' = SetChunk(merged, "multispec",
                      [ChunkAt(merged, "multispec") EXCEPT !.label = "all_images"])
    /\ trace' = Save(trace)
    /\ pc' = "filter"
    /\ UNCHANGED <<mainFrame, markers, raised>>

\* lines 344-351: filter_images_by_timestamp(merged_chunk), the project saved
MainFilter ==
    /\ op = "load_multispec" /\ pc = "filter"
    /\ doc' = SetChunk(doc, "multispec",
                  [ChunkAt(doc, "multispec") EXCEPT
                      !.cameras = FilterRun(@, args.time_buffer)])
    /\ trace' = Save(trace)
    /\ pc' = "done"
    /\ UNCHANGED <<mainFrame, markers, raised>>

NextMain ==
    \/ MainCreateChunks
    \/ MainConfigure
    \/ MainLoadMarkers
    \/ MainDetectPanels
    \/ MainMerge
    \/ MainFilter

SpecMain == InitMain /\ [][NextMain]_vars

(***************************************************************************)
(* main of metashape_load_multispec.py: claims                             *)
(***************************************************************************)
MainCompleted == op = "load_multispec" /\ pc = "done"

AllImages == doc[CHOOSE k \in DOMAIN doc : doc[k].label = "all_images"]

\* C17 (as stated): when the script completes, every marker that
\* load_markers added from the .mrk files is a marker of the merged chunk
\* 'all_images'.
C17_AsStated ==
    MainCompleted =>
        \A k \in DOMAIN markers :
            \E j \in DOMAIN AllImages.markers : AllImages.markers[j] = markers[k]

(***************************************************************************)
(* All operations: each behaviour runs one of them.                        *)
(***************************************************************************)
Init ==
    \/ InitConfigure \/ InitRemove \/ InitFilter \/ InitFlight
    \/ InitMarkers \/ InitGpu \/ InitMerge \/ InitResume \/ InitMain

Next ==
    \/ NextConfigure \/ NextRemove \/ NextFilter \/ NextFlight
    \/ NextMarkers \/ NextGpu \/ NextMerge \/ NextResume \/ NextMain

Spec == Init /\ [][Next]_vars

====
